---- MODULE Spec2Model ----
(***************************************************************************)
(* Model of the per-channel message serialisation and reasoning loop of    *)
(* AgentSDKManager (src/src/services/bugbuster-manager.js, the last        *)
(* version in the file, lines 725-1178) together with the collaborators it *)
(* calls: executeTool, sendViaWebhook and MeetBotManager.                  *)
(*                                                                         *)
(* One action is one run-to-completion stretch of JavaScript: the code     *)
(* between two suspension points (await of the model API, of a tool, of    *)
(* the webhook; a setImmediate callback; a setTimeout callback).           *)
(***************************************************************************)
EXTENDS Integers, Sequences, FiniteSets, TLC

\* ------------------------------------------------------------------ bounds

MaxMsgs == 3
\* sendMessage calls made by inbound handlers in one behaviour of Spec

MaxArrays == 3
\* history array objects alive at the same time

MaxStubRounds == 1
\* tool rounds the model stub asks for in one run under SpecPair

MaxVaryRounds == 1
\* rounds of a run in which the stub may answer with any response of
\* LoopResponses; afterwards it answers with a plain one

MaxBots == 1
\* Recall.ai bots registered in one behaviour

MaxTurns == 3
\* largest MAX_CONVERSATION_TURNS of the environment of a ClaudeAgent run

MaxTranscripts == 3

\* bot ids the Recall.ai API may hand out to the join tool
MaxJoinBots == 2

\* sendCliqMessage calls that may be in flight side by side
MaxSends == 2

\* times the Cliq API answers one call with oauthtoken_invalid
MaxInvalid == 3
\* complete transcripts the Meet webhook delivers in one behaviour

PairMsgs == 2
\* sendMessage calls made by inbound handlers in one behaviour of SpecPair

\* ------------------------------------------------------- program constants

MAX_TOOL_ROUNDS == 50

INPUT_RATE == 3

OUTPUT_RATE == 15

\* ------------------------------------------------------------------ values

Channels == {"c1", "c2"}

Msgs == 1..MaxMsgs

ArrIds == 1..MaxArrays

BotIds == 1..MaxBots

NoName == "null"

ChannelNameArgs == {NoName, "#bugs"}

\* A JavaScript Map: a function whose domain is the set of keys present.
MapSet(map, k, v) == [x \in (DOMAIN map) \cup {k} |-> IF x = k THEN v ELSE map[x]]

MapDelete(map, k) == [x \in (DOMAIN map) \ {k} |-> map[x]]

MapHas(map, k) == k \in DOMAIN map

EmptyMap == [x \in {} |-> 0]

\* ------------------------------------------------------------------- text
\* A JavaScript string is a sequence of one-character strings.

Whitespace == {" ", "\n", "\t"}

LowerCase == <<"a","b","c","d","e","f","g","h","i","j","k","l","m",
               "n","o","p","q","r","s","t","u","v","w","x","y","z">>

UpperCase == <<"A","B","C","D","E","F","G","H","I","J","K","L","M",
               "N","O","P","Q","R","S","T","U","V","W","X","Y","Z">>

UpperChar(ch) ==
    IF \E i \in 1..26 : LowerCase[i] = ch
    THEN UpperCase[CHOOSE i \in 1..26 : LowerCase[i] = ch]
    ELSE ch

toUpperCase(s) == [i \in 1..Len(s) |-> UpperChar(s[i])]

trim(s) ==
    LET keep == {i \in 1..Len(s) : s[i] \notin Whitespace}
    IN  IF keep = {} THEN <<>>
        ELSE LET lo == CHOOSE i \in keep : \A j \in keep : i <= j
                 hi == CHOOSE i \in keep : \A j \in keep : j <= i
             IN  SubSeq(s, lo, hi)

includes(s, sub) ==
    \E i \in 0..(Len(s) - Len(sub)) : SubSeq(s, i + 1, i + Len(sub)) = sub

SILENT == <<"[","S","I","L","E","N","T","]">>

\* mutant: only a block that is exactly the marker is silent
IsExactlySilent(trimmedText) == toUpperCase(trimmedText) = SILENT

\* [SILENT] check of one trimmed text block (bugbuster-manager.js 965-976)
IsSilent(trimmedText) ==
    \/ toUpperCase(trimmedText) = SILENT
    \/ includes(toUpperCase(trimmedText), SILENT)

\* ----------------------------------------------------------- content blocks
\* One record shape for every content block, so that any two can be compared.

Block(type, text, id, name, is_error, msg) ==
    [type |-> type, text |-> text, id |-> id, name |-> name,
     is_error |-> is_error, msg |-> msg]

TextBlock(text) == Block("text", text, "", "", FALSE, 0)

ToolUse(id, name) == Block("tool_use", <<>>, id, name, FALSE, 0)

ToolResult(id, content) == Block("tool_result", content, id, "", FALSE, 0)

ToolError(id, message) == Block("tool_result", <<"Error: ", message>>, id, "", TRUE, 0)

\* the payload of sendMessage call m: messageContent || userMessage
UserContent(m) == <<Block("message", <<>>, "", "", FALSE, m)>>

Turn(role, content) == [role |-> role, content |-> content]

Usage == [input_tokens |-> 2, output_tokens |-> 1]

Response(content) == [content |-> content, usage |-> Usage]

KnownTools == {"server_exec", "create_jira_ticket", "update_memory", "join_google_meet"}

\* what the model stub may answer
PlainFinal == Response(<<TextBlock(<<"h","i">>)>>)

PlainTool == Response(<<ToolUse("t1", "server_exec")>>)

LoopResponses ==
    { PlainFinal,
      PlainTool,
      Response(<<TextBlock(<<" ","o","n"," ">>), ToolUse("t1", "bogus"),
                 ToolUse("t2", "update_memory"), TextBlock(<<"i","t">>)>>),
      Response(<<TextBlock(<<"[","S","I","L","E","N","T","]">>)>>),
      Response(<<TextBlock(<<"n","o"," ","[","S","i","l","e","n","t","]","\n">>),
                 TextBlock(<<"o","k">>)>>),
      Response(<<TextBlock(<<" ","\n">>), TextBlock(<<"[","s","i","l","e","n","t">>)>>) }

\* -------------------------------------------------------------------- state

VARIABLES
    conversationHistory,  \* Map channelId -> history array (an id of arrays)
    arrays,               \* the history array objects: id -> sequence of turns
    sessionStats,         \* Map channelId -> [totalCost, messageCount]
    inactivityTimers,     \* Map channelId -> "live" | "fired" (the timeout id)
    timeouts,             \* channelId -> number of armed setTimeout callbacks
    processingLocks,      \* keys of the Map channelId -> true
    messageQueues,        \* channelId -> queued sendMessage calls, oldest first
    channelNames,         \* Map channelId -> channelName
    immediates,           \* pending setImmediate callbacks, oldest first
    activeBots,           \* MeetBotManager.activeBots: Map botId -> channelId
    webhook,              \* the calls made to sendViaWebhook, oldest first
    meetChat,             \* the calls made to sendChatMessage, oldest first
    nextMsg,              \* number of the next inbound sendMessage call
    calls,                \* the sendMessage calls: local state of each
    agent,                \* ClaudeAgent.claudeReasoningLoop: the locals of a run
    transcriptBuffers,    \* routes/meet.js: Map botId -> bufferData
    bufferTimeouts,       \* botId -> number of armed buffer setTimeout callbacks
    submissions,          \* the processBufferedTranscripts calls that submitted
    now,                  \* Date.now(): the transcripts accepted so far
    cliqEnv,              \* process.env: is CLIQ_API_TOKEN set, are the OAuth credentials
    cachedAccessToken,    \* services/cliq.js: the token cache
    tokenExpiresAt,       \* services/cliq.js: "null", or "later" or "past" against Date.now()
    cliqCalls             \* the sendCliqMessage calls: local state of each

vars == <<conversationHistory, arrays, sessionStats, inactivityTimers, timeouts,
          processingLocks, messageQueues, channelNames, immediates, activeBots,
          webhook, meetChat, nextMsg, calls, agent,
          transcriptBuffers, bufferTimeouts, submissions, now,
          cliqEnv, cachedAccessToken, tokenExpiresAt, cliqCalls>>

\* the state of the transcript buffering of routes/meet.js
meetVars == <<transcriptBuffers, bufferTimeouts, submissions, now>>

\* the state of services/cliq.js
cliqVars == <<cliqEnv, cachedAccessToken, tokenExpiresAt, cliqCalls>>

SendIds == 1..MaxSends

\* a sendCliqMessage call that has not been made
NoSend == [pc |-> "none", apiToken |-> "undefined", attempts |-> 0, depth |-> 0,
           error |-> ""]

\* the module is loaded with the token of the environment (services/cliq.js
\* 9-10) and nothing has been sent
CliqLoaded(env) ==
    /\ cliqEnv = env
    /\ cachedAccessToken = (IF env.token THEN "env" ELSE "undefined")
    /\ tokenExpiresAt = "null"
    /\ cliqCalls = [k \in SendIds |-> NoSend]

CliqIdle == CliqLoaded([token |-> TRUE, creds |-> TRUE])

\* no transcript has arrived (routes/meet.js 29)
MeetIdle ==
    /\ transcriptBuffers = EmptyMap
    /\ bufferTimeouts = [b \in BotIds |-> 0]
    /\ submissions = <<>>
    /\ now = 0

Pending == [state |-> "pending", value |-> <<>>]

NoCall ==
    [channelId |-> "", channelName |-> NoName, pc |-> "none", deferred |-> FALSE,
     history |-> 0, response |-> <<>>, usage |-> Usage, blockIdx |-> 0,
     toolIdx |-> 0, toolResults |-> <<>>, toolRound |-> 0, assistantText |-> <<>>,
     apiCalls |-> 0, outcome |-> Pending, isGoogleMeet |-> FALSE, system |-> <<>>,
     existingBot |-> 0]

\* jiraTicket = null (part_004 line 180)
NoTicket == [error |-> FALSE, success |-> FALSE, ignored |-> FALSE, ticket_key |-> 0]

\* the reasoning loop before it is called: the locals of lines 177-180, the
\* messages argument, and the issues Jira has created
AgentIdle ==
    [pc |-> "idle", skipTools |-> FALSE, maxTurns |-> 0, turn |-> 0,
     toolsUsed |-> <<>>, jiraTicket |-> NoTicket,
     messages |-> <<Turn("user", UserContent(1))>>, toolCalls |-> <<>>,
     toolIdx |-> 0, toolResults |-> <<>>, issues |-> 0,
     returned |-> [finalResponse |-> <<>>, jiraTicket |-> NoTicket, ignored |-> FALSE]]

Running == {"create0", "create", "deliver", "tool"}

Init ==
    /\ conversationHistory = EmptyMap
    /\ arrays = [a \in ArrIds |-> <<>>]
    /\ sessionStats = EmptyMap
    /\ inactivityTimers = EmptyMap
    /\ timeouts = [c \in Channels |-> 0]
    /\ processingLocks = {}
    /\ messageQueues = [c \in Channels |-> <<>>]
    /\ channelNames = EmptyMap
    /\ immediates = <<>>
    /\ activeBots = EmptyMap
    /\ webhook = <<>>
    /\ meetChat = <<>>
    /\ nextMsg = 1
    /\ calls = [m \in Msgs |-> NoCall]
    /\ agent = AgentIdle
    /\ MeetIdle
    /\ CliqIdle

\* ------------------------------------------------------------ session store
\* The store is the five variables the session methods touch, as one record.

Store ==
    [conversationHistory |-> conversationHistory, arrays |-> arrays,
     sessionStats |-> sessionStats, inactivityTimers |-> inactivityTimers,
     timeouts |-> timeouts]

\* mutant: the timeout armed before is not cancelled
TimeoutKept(S, c) == S

\* clearTimeout(id): an armed timer is disarmed, a fired one is left alone
clearTimeout(S, c) ==
    IF MapHas(S.inactivityTimers, c) /\ S.inactivityTimers[c] = "live"
    THEN [S EXCEPT !.timeouts[c] = @ - 1]
    ELSE S

resetInactivityTimer(S, c) ==
    LET S1 == clearTimeout(S, c)
    IN  [S1 EXCEPT !.timeouts[c] = @ + 1,
                   !.inactivityTimers = MapSet(@, c, "live")]

\* array ids some variable still refers to
LiveArrays(conv, cs) ==
    {conv[c] : c \in DOMAIN conv} \cup {cs[m].history : m \in {k \in Msgs : cs[k].pc \in Running}}

NewArray(conv, cs) ==
    CHOOSE a \in ArrIds \ LiveArrays(conv, cs) :
        \A b \in ArrIds \ LiveArrays(conv, cs) : a <= b

\* mutant: a new session is created without stats
SessionWithoutStats(S, c, cs) ==
    IF ~MapHas(S.conversationHistory, c)
    THEN LET a == NewArray(S.conversationHistory, cs)
             S1 == [S EXCEPT !.conversationHistory = MapSet(@, c, a),
                             !.arrays[a] = <<>>]
         IN  resetInactivityTimer(S1, c)
    ELSE resetInactivityTimer(S, c)

\* mutant: the stats are initialised at every call
StatsAlwaysInitialised(S, c, cs) ==
    LET zero == [totalCost |-> 0, messageCount |-> 0]
    IN  IF ~MapHas(S.conversationHistory, c)
        THEN LET a == NewArray(S.conversationHistory, cs)
                 S1 == [S EXCEPT !.conversationHistory = MapSet(@, c, a),
                                 !.arrays[a] = <<>>,
                                 !.sessionStats = MapSet(@, c, zero)]
             IN  resetInactivityTimer(S1, c)
        ELSE resetInactivityTimer([S EXCEPT !.sessionStats = MapSet(@, c, zero)], c)

getOrInitHistory(S, c, cs) ==
    IF ~MapHas(S.conversationHistory, c)
    THEN LET a == NewArray(S.conversationHistory, cs)
             S1 == [S EXCEPT !.conversationHistory = MapSet(@, c, a),
                             !.arrays[a] = <<>>,
                             !.sessionStats = MapSet(@, c, [totalCost |-> 0, messageCount |-> 0])]
         IN  resetInactivityTimer(S1, c)
    ELSE resetInactivityTimer(S, c)

addCost(S, c, cost) ==
    LET stats == IF MapHas(S.sessionStats, c) THEN S.sessionStats[c]
                 ELSE [totalCost |-> 0, messageCount |-> 0]
    IN  [S EXCEPT !.sessionStats =
            MapSet(@, c, [totalCost |-> stats.totalCost + cost,
                          messageCount |-> stats.messageCount + 1])]

\* this.sessionStats.get(channelId) || { totalCost: 0, messageCount: 0, ... }
getSessionStats(stats, c) ==
    IF MapHas(stats, c) THEN stats[c] ELSE [totalCost |-> 0, messageCount |-> 0]

\* mutant: the session is closed without cancelling its timeout
TimerLeftArmed(S, c) ==
    IF MapHas(S.conversationHistory, c)
    THEN [S EXCEPT !.conversationHistory = MapDelete(@, c),
                   !.sessionStats = MapDelete(@, c)]
    ELSE S

closeSession(S, c) ==
    IF MapHas(S.conversationHistory, c)
    THEN LET S1 == IF MapHas(S.inactivityTimers, c)
                   THEN [clearTimeout(S, c) EXCEPT !.inactivityTimers = MapDelete(@, c)]
                   ELSE S
         IN  [S1 EXCEPT !.conversationHistory = MapDelete(@, c),
                        !.sessionStats = MapDelete(@, c)]
    ELSE S

\* an array no variable refers to any more is garbage: its content is dropped
Sweep(arr, conv, cs) ==
    [a \in ArrIds |-> IF a \in LiveArrays(conv, cs) THEN arr[a] ELSE <<>>]

\* the five store variables take the values of record S
SetStore(S, cs) ==
    /\ conversationHistory' = S.conversationHistory
    /\ arrays' = Sweep(S.arrays, S.conversationHistory, cs)
    /\ sessionStats' = S.sessionStats
    /\ inactivityTimers' = S.inactivityTimers
    /\ timeouts' = S.timeouts

\* --------------------------------------------------------------- the manager
\* Everything a stretch of manager code can change, as one record; the actions
\* below turn the record the operators return into the next state.

World ==
    [S |-> Store, locks |-> processingLocks, queues |-> messageQueues,
     names |-> channelNames, imm |-> immediates, hook |-> webhook,
     chat |-> meetChat, cs |-> calls]

\* mutant: the lock is never seen as held
LockNeverHeld(locks, c) == FALSE

\* mutant: one lock for all channels
LockHeldByAny(locks, c) == locks # {}

\* this.processingLocks.has(channelId)
LockHeld(locks, c) == c \in locks

\* this.processingLocks.set(channelId, true)
AcquireLock(locks, c) == locks \cup {c}

\* mutant: the lock is kept when the run has returned
LockKeptOnReturn(locks, c) == locks

\* this.processingLocks.delete(channelId) after _processMessage returned
ReleaseLock(locks, c) == locks \ {c}

\* mutant: the catch block forgets the lock
LockKeptOnError(locks, c) == locks

\* this.processingLocks.delete(channelId) in the catch block
ReleaseLockOnError(locks, c) == locks \ {c}

\* mutant: queue[0] is read and left in the queue
NotShifted(queue) == queue

\* queue.shift(): the queue that is left
Shifted(queue) == Tail(queue)

\* history.push(turn) on the array the call holds
Push(W, m, turn) == [W EXCEPT !.S.arrays[W.cs[m].history] = Append(@, turn)]

\* MeetBotManager.isChannelInMeeting (cleanupStaleBots is action BotLeaves)
isChannelInMeeting(bots, c) == \E b \in DOMAIN bots : bots[b] = c

\* sendMessage of the channel's oldest queued call is put on the setImmediate
\* queue when there is one (lines 852-867)
Drain(W, c) ==
    IF Len(W.queues[c]) > 0
    THEN [W EXCEPT !.queues[c] = Shifted(@), !.imm = Append(@, Head(W.queues[c]))]
    ELSE W

\* the inbound handler that made the call: the Cliq handler passes the channel
\* name (routes/cliq.js 130), the Meet handlers pass none (routes/meet.js 288,
\* 317, 499)
CallerOf(r) == IF r.channelName = NoName THEN "meet" ELSE "cliq"

\* the handler's code after its await of sendMessage: processWithAgentSDK
\* sends nothing for a resolved call and 'ugh something broke: ...' for a
\* rejected one (routes/cliq.js 130-157); the Meet handlers send a resolved
\* non-blank text other than '[SILENT]' to the meeting chat and only log a
\* rejection (routes/meet.js 316-329)
CallerResumes(W, m) ==
    LET r   == W.cs[m]
        out == r.outcome
    IN  IF CallerOf(r) = "cliq"
        THEN IF out.state = "rejected"
             THEN [W EXCEPT !.hook =
                     Append(@, [channelId |-> r.channelId, channelName |-> r.channelName,
                                text |-> <<"ugh something broke: ">> \o out.value,
                                by |-> m, round |-> r.toolRound, block |-> 0])]
             ELSE W
        ELSE IF out.state = "fulfilled" /\ trim(out.value) # <<>> /\ trim(out.value) # SILENT
             THEN [W EXCEPT !.chat =
                     Append(@, [channelId |-> r.channelId, text |-> out.value, by |-> m])]
             ELSE W

\* _processMessage returns assistantText to sendMessage, which releases the
\* lock, drains and returns (lines 1059-1074, 849-869); a call taken from the
\* queue resolves the queue entry's promise (lines 861-862)
FinishRun(W, m) ==
    LET c  == W.cs[m].channelId
        r  == W.cs[m]
        W1 == Push(W, m, Turn("assistant", r.response))
        cost == r.usage.input_tokens * INPUT_RATE + r.usage.output_tokens * OUTPUT_RATE
        W2 == [W1 EXCEPT !.S = addCost(@, c, cost)]
        W3 == [W2 EXCEPT !.locks = ReleaseLock(@, c)]
        W4 == Drain(W3, c)
        W5 == [W4 EXCEPT !.cs[m].pc = "returned",
                         !.cs[m].outcome = [state |-> "fulfilled", value |-> r.assistantText]]
    IN  CallerResumes(W5, m)

\* mutant: the error of a re-submitted call rejects the deferred result
FailRunRejects(W, m, message) ==
    LET c  == W.cs[m].channelId
        W1 == [W EXCEPT !.locks = ReleaseLockOnError(@, c)]
        W2 == [W1 EXCEPT !.cs[m].pc = "threw",
                         !.cs[m].outcome = [state |-> "rejected", value |-> <<message>>]]
    IN  CallerResumes(W2, m)

\* an error thrown inside _processMessage: rethrown at 1078, the lock is
\* released at 871 and the error is thrown to the caller; for a call taken from
\* the queue the setImmediate callback resolves with 'Error: ...' (line 864)
FailRun(W, m, message) ==
    LET c  == W.cs[m].channelId
        W1 == [W EXCEPT !.locks = ReleaseLockOnError(@, c)]
        W2 == [W1 EXCEPT !.cs[m].pc = "threw",
                         !.cs[m].outcome =
                             IF W.cs[m].deferred
                             THEN [state |-> "fulfilled", value |-> <<"Error: ", message>>]
                             ELSE [state |-> "rejected", value |-> <<message>>]]
    IN  CallerResumes(W2, m)

\* mutant: the join tool does not look for a bot of the channel
NoExistingBot(bots, c) == 0

\* MeetBotManager.getBotByChannelId (part_003 88-95): the bot registered for
\* the channel, 0 for null
getBotByChannelId(bots, c) ==
    IF isChannelInMeeting(bots, c)
    THEN CHOOSE b \in DOMAIN bots : bots[b] = c
    ELSE 0

\* tool calls of a response (line 1001)
ToolCalls(content) == SelectSeq(content, LAMBDA b : b.type = "tool_use")

\* lines 1000-1016: no tool call ends the loop, else the assistant turn is
\* pushed and the first tool is awaited
AfterBlocks(W, m) ==
    IF Len(ToolCalls(W.cs[m].response)) = 0
    THEN FinishRun(W, m)
    ELSE LET W1 == Push(W, m, Turn("assistant", W.cs[m].response))
         IN  [W1 EXCEPT !.cs[m].pc = "tool", !.cs[m].toolIdx = 1,
                        !.cs[m].toolResults = <<>>]

\* the text block is sent: not blank, not silent, a stored channel name, no meeting
Sends(W, bots, c, block) ==
    /\ block.type = "text"
    /\ trim(block.text) # <<>>
    /\ ~IsSilent(trim(block.text))
    /\ MapHas(W.names, c)
    /\ ~isChannelInMeeting(bots, c)

\* block.type === 'text' && block.text.trim(): the text is accumulated
Accumulates(block) == block.type = "text" /\ trim(block.text) # <<>>

\* lines 960-998 from block i on, up to the next await of sendViaWebhook
RECURSIVE ScanBlocks(_, _, _, _)
ScanBlocks(W, bots, m, i) ==
    LET r == W.cs[m]
        c == r.channelId
    IN  IF i > Len(r.response)
        THEN AfterBlocks(W, m)
        ELSE LET block == r.response[i]
                 W1 == IF Accumulates(block)
                       THEN [W EXCEPT !.cs[m].assistantText = @ \o block.text]
                       ELSE W
             IN  IF Sends(W, bots, c, block)
                 THEN [W1 EXCEPT
                         !.hook = Append(@, [channelId |-> c, channelName |-> W.names[c],
                                             text |-> trim(block.text), by |-> m,
                                             round |-> r.toolRound, block |-> i]),
                         !.cs[m].pc = "deliver",
                         !.cs[m].blockIdx = i]
                 ELSE ScanBlocks(W1, bots, m, i + 1)

\* while (toolRound < MAX_TOOL_ROUNDS) (line 958)
LoopCondition(toolRound) == toolRound < MAX_TOOL_ROUNDS

\* mutant: the tools of a response are started before its text is looked at
ToolsFirst(W, bots, m) ==
    IF ~LoopCondition(W.cs[m].toolRound) THEN FinishRun(W, m)
    ELSE IF Len(ToolCalls(W.cs[m].response)) > 0 THEN AfterBlocks(W, m)
         ELSE ScanBlocks(W, bots, m, 1)

\* top of the while loop with a fresh response
LoopTop(W, bots, m) ==
    IF LoopCondition(W.cs[m].toolRound)
    THEN ScanBlocks(W, bots, m, 1)
    ELSE FinishRun(W, m)

\* this.systemPrompt, and the rules appended to it at lines 906-940
systemPrompt == <<"systemPrompt">>

GoogleMeetRules == <<"## GOOGLE MEET RULES (CRITICAL!)">>

\* lines 895-896: the channel id starts with test_ or the message contains
\* '[Google Meet]'; the messages of the Meet handlers do (routes/meet.js 287,
\* 314, 496), those of the Cliq handler are taken not to
isGoogleMeet(r) == CallerOf(r) = "meet"

\* lines 905-941: the system prompt of the first model call
FirstSystemPrompt(r) ==
    IF isGoogleMeet(r) THEN systemPrompt \o GoogleMeetRules ELSE systemPrompt

\* _processMessage up to its first await (lines 880-951)
ProcessMessage(W, m) ==
    LET c  == W.cs[m].channelId
        W1 == [W EXCEPT !.S = getOrInitHistory(@, c, W.cs)]
        W2 == [W1 EXCEPT !.cs[m].history = W1.S.conversationHistory[c]]
        W3 == Push(W2, m, Turn("user", UserContent(m)))
    IN  [W3 EXCEPT !.cs[m].pc = "create0", !.cs[m].apiCalls = 1,
                   !.cs[m].isGoogleMeet = isGoogleMeet(W.cs[m]),
                   !.cs[m].system = FirstSystemPrompt(W.cs[m])]

\* sendMessage up to its first await (lines 824-847)
Submit(W, m, c, name) ==
    LET W1 == IF name # NoName THEN [W EXCEPT !.names = MapSet(@, c, name)] ELSE W
        W2 == [W1 EXCEPT !.cs[m].channelId = c, !.cs[m].channelName = name]
    IN  IF LockHeld(W2.locks, c)
        THEN [W2 EXCEPT !.queues[c] = Append(@, m),
                        !.cs[m].pc = "waiting", !.cs[m].deferred = TRUE]
        ELSE ProcessMessage([W2 EXCEPT !.locks = AcquireLock(@, c)], m)

\* the manager's next state is the world W
ManagerBecomes(W) ==
    /\ SetStore(W.S, W.cs)
    /\ processingLocks' = W.locks
    /\ messageQueues' = W.queues
    /\ channelNames' = W.names
    /\ immediates' = W.imm
    /\ webhook' = W.hook
    /\ meetChat' = W.chat
    /\ calls' = W.cs

\* the next state is the world W
Becomes(W) ==
    /\ ManagerBecomes(W)
    /\ UNCHANGED <<agent, meetVars, cliqVars>>

JoinTool == "join_google_meet"

\* the tool call the loop of lines 1016-1039 is at
CurrentTool(r) == ToolCalls(r.response)[r.toolIdx]

\* executeTool is called for the current tool call (line 1023): the join tool
\* runs up to its await, which is after const existingBot =
\* meetBotManager.getBotByChannelId(channelId) (join-meet/index.js 32-54)
JoinCheck(W, bots, m) ==
    LET r == W.cs[m]
    IN  IF r.pc = "tool" /\ CurrentTool(r).name = JoinTool
        THEN [W EXCEPT !.cs[m].existingBot = getBotByChannelId(bots, r.channelId)]
        ELSE [W EXCEPT !.cs[m].existingBot = 0]

\* ------------------------------------------------------------------ actions

\* getOrInitHistory can allocate the array it may need
CanStart(c) ==
    MapHas(conversationHistory, c) \/ ArrIds \ LiveArrays(conversationHistory, calls) # {}

\* an inbound handler (routes/cliq.js 130, routes/meet.js 288, 317, 499) calls
\* sendMessage(channelId, userMessage, channelName)
SendMessage(c, name, limit) ==
    /\ nextMsg <= limit
    /\ LockHeld(processingLocks, c) \/ CanStart(c)
    /\ Becomes(Submit(World, nextMsg, c, name))
    /\ nextMsg' = nextMsg + 1
    /\ UNCHANGED activeBots

\* the oldest setImmediate callback runs: sendMessage for the dequeued call
\* (lines 859-866), with the arguments kept in the queue entry
ImmediateFires ==
    /\ Len(immediates) > 0
    /\ LET m == Head(immediates)
           c == calls[m].channelId
       IN  /\ LockHeld(processingLocks, c) \/ CanStart(c)
           /\ Becomes(Submit([World EXCEPT !.imm = Tail(@)], m, c, calls[m].channelName))
    /\ UNCHANGED <<activeBots, nextMsg>>

\* what the stub may answer to the model call a run is waiting for: any
\* response of LoopResponses in the first `vary` calls of the run and a plain one
\* afterwards, and a tool call in the first `rounds` calls only
StubAllows(m, resp, vary, rounds) ==
    /\ resp \in LoopResponses
    /\ calls[m].apiCalls > vary => resp \in {PlainFinal, PlainTool}
    /\ calls[m].apiCalls > rounds => Len(ToolCalls(resp.content)) = 0

\* client.messages.create resolves (lines 945 and 1048); after the call at
\* 1048 toolRound is incremented and the loop condition is tested
Responds(m, resp) ==
    /\ calls[m].pc \in {"create0", "create"}
    /\ LET W1 == [World EXCEPT !.cs[m].response = resp.content,
                               !.cs[m].usage = resp.usage,
                               !.cs[m].toolRound =
                                   IF calls[m].pc = "create" THEN @ + 1 ELSE @]
       IN  Becomes(JoinCheck(LoopTop(W1, activeBots, m), activeBots, m))
    /\ UNCHANGED <<activeBots, nextMsg>>

\* the stub answers the model call of run m with resp
ModelReturns(m, resp, vary, rounds) ==
    /\ StubAllows(m, resp, vary, rounds)
    /\ Responds(m, resp)

\* client.messages.create rejects
ModelFails(m) ==
    /\ calls[m].pc \in {"create0", "create"}
    /\ Becomes(FailRun(World, m, "API error"))
    /\ UNCHANGED <<activeBots, nextMsg>>

\* mutant: the error of sendViaWebhook is not caught
DeliveryAborts(W, m) == FailRun(W, m, "Webhook failed")

\* line 993: a rejected sendViaWebhook is logged and nothing else
DeliveryFailed(W, m) == W

\* sendViaWebhook resolves or rejects (lines 989-994): either way the loop
\* goes on with the next block
DeliveryReturns(m, ok) ==
    /\ calls[m].pc = "deliver"
    /\ LET W1 == IF ok THEN World ELSE DeliveryFailed(World, m)
       IN  Becomes(JoinCheck(ScanBlocks(W1, activeBots, m, calls[m].blockIdx + 1),
                             activeBots, m))
    /\ UNCHANGED <<activeBots, nextMsg>>

\* executeTool (tools/index.js 20-33) throws for a name it does not know;
\* for the others it returns what the tool returns or throws what it throws
ToolOutcomes(name) ==
    IF name \in KnownTools THEN {"result", "throws"} ELSE {"throws"}

ThrownMessage(name) ==
    IF name \in KnownTools THEN "tool failed" ELSE "Unknown tool"

\* mutant: every result is pushed on its own and the model is called at once
AfterEachTool(W, m) ==
    LET W1 == Push(W, m, Turn("user", W.cs[m].toolResults))
    IN  [W1 EXCEPT !.cs[m].pc = "create", !.cs[m].apiCalls = @ + 1]

\* lines 1041-1054: after the last tool the results are pushed as one user
\* turn and the model is called again
AfterTool(W, m) ==
    LET r == W.cs[m]
    IN  IF r.toolIdx < Len(ToolCalls(r.response))
        THEN [W EXCEPT !.cs[m].toolIdx = @ + 1]
        ELSE LET W1 == Push(W, m, Turn("user", r.toolResults))
             IN  [W1 EXCEPT !.cs[m].pc = "create", !.cs[m].apiCalls = @ + 1,
                            !.cs[m].system = systemPrompt]

\* lines 1023-1029: the result is collected and the loop over the tool calls
\* goes on
ToolResolved(W, m, toolCall) ==
    AfterTool([W EXCEPT !.cs[m].toolResults =
                  Append(@, ToolResult(toolCall.id, <<"result">>))], m)

\* mutant: no try/catch around executeTool, the error ends the run
ToolAborts(W, m, toolCall) == FailRun(W, m, ThrownMessage(toolCall.name))

\* lines 1030-1038: the error is collected as an is_error result and the loop
\* over the tool calls goes on
ToolRejected(W, m, toolCall) ==
    AfterTool([W EXCEPT !.cs[m].toolResults =
                  Append(@, ToolError(toolCall.id, ThrownMessage(toolCall.name)))], m)

\* await executeTool(...) of the current tool call settles, for every tool
\* but the join tool (action JoinReturns); a known tool throws only in the
\* first `vary` rounds of a run
ToolReturns(m, outcome, vary) ==
    /\ calls[m].pc = "tool"
    /\ LET toolCall == CurrentTool(calls[m])
       IN  /\ toolCall.name # JoinTool
           /\ outcome \in ToolOutcomes(toolCall.name)
           /\ (outcome = "throws" /\ toolCall.name \in KnownTools) => calls[m].apiCalls <= vary
           /\ Becomes(JoinCheck(IF outcome = "throws"
                                THEN ToolRejected(World, m, toolCall)
                                ELSE ToolResolved(World, m, toolCall),
                                activeBots, m))
    /\ UNCHANGED <<activeBots, nextMsg>>

\* POST /reset-session/:channelId (routes/cliq.js 163-172)
ResetSession(c) ==
    /\ MapHas(conversationHistory, c)
    /\ SetStore(closeSession(Store, c), calls)
    /\ UNCHANGED <<processingLocks, messageQueues, channelNames, immediates,
                   activeBots, webhook, meetChat, nextMsg, calls, agent, meetVars, cliqVars>>

\* an armed inactivity timeout of channel c fires (lines 1099-1102): it is the
\* one the Map holds, or another one still armed
TimerFires(c) ==
    /\ timeouts[c] > 0
    /\ \E held \in BOOLEAN :
         /\ held => MapHas(inactivityTimers, c) /\ inactivityTimers[c] = "live"
         /\ ~held => timeouts[c] > (IF MapHas(inactivityTimers, c) /\ inactivityTimers[c] = "live"
                                    THEN 1 ELSE 0)
         /\ LET S1 == [Store EXCEPT !.timeouts[c] = @ - 1,
                                    !.inactivityTimers =
                                        IF held THEN MapSet(@, c, "fired") ELSE @]
            IN  SetStore(closeSession(S1, c), calls)
    /\ UNCHANGED <<processingLocks, messageQueues, channelNames, immediates,
                   activeBots, webhook, meetChat, nextMsg, calls, agent, meetVars, cliqVars>>

\* MeetBotManager.joinMeeting registers a bot for the channel (part_003 58-67)
BotJoins(b, c) ==
    /\ ~MapHas(activeBots, b)
    /\ activeBots' = MapSet(activeBots, b, c)
    /\ UNCHANGED <<conversationHistory, arrays, sessionStats, inactivityTimers,
                   timeouts, processingLocks, messageQueues, channelNames,
                   immediates, webhook, meetChat, nextMsg, calls, agent, meetVars, cliqVars>>

\* leaveMeeting or cleanupStaleBots deletes a bot (part_003 120-175)
BotLeaves(b) ==
    /\ MapHas(activeBots, b)
    /\ activeBots' = MapDelete(activeBots, b)
    /\ UNCHANGED <<conversationHistory, arrays, sessionStats, inactivityTimers,
                   timeouts, processingLocks, messageQueues, channelNames,
                   immediates, webhook, meetChat, nextMsg, calls, agent, meetVars, cliqVars>>

\* ----------------------------------------------------------- specifications

\* the channelName argument of the inbound handlers: "c1" is a Cliq channel
\* (routes/cliq.js 130 passes channel_name), "c2" a Meet test channel
\* (routes/meet.js 288 passes none)
NameOf(c) == IF c = "c1" THEN "#bugs" ELSE NoName

\* Queueing: MaxMsgs messages on two channels; every run is one model call
\* that fails or answers with a final text.
Next ==
    \/ \E c \in Channels : SendMessage(c, NameOf(c), MaxMsgs)
    \/ ImmediateFires
    \/ \E m \in Msgs : ModelReturns(m, PlainFinal, 0, 0)
    \/ \E m \in Msgs : ModelFails(m)
    \/ \E m \in Msgs, ok \in BOOLEAN : DeliveryReturns(m, ok)
    \/ \E c \in Channels : TimerFires(c)
    \/ \E c \in Channels : ResetSession(c)

Spec == Init /\ [][Next]_vars

\* every started model call and delivery settles, every setImmediate callback
\* runs; no further message has to arrive
Fairness ==
    /\ WF_vars(ImmediateFires)
    /\ \A m \in Msgs :
         WF_vars(\/ ModelReturns(m, PlainFinal, 0, 0)
                 \/ ModelFails(m)
                 \/ \E ok \in BOOLEAN : DeliveryReturns(m, ok))

SpecFair == Spec /\ Fairness

\* Two channels side by side: PairMsgs messages, runs with up to
\* MaxStubRounds tool rounds.
NextPair ==
    \/ \E c \in Channels : SendMessage(c, NameOf(c), PairMsgs)
    \/ ImmediateFires
    \/ \E m \in Msgs, resp \in {PlainFinal, PlainTool} : ModelReturns(m, resp, 0, MaxStubRounds)
    \/ \E m \in Msgs : ModelFails(m)
    \/ \E m \in Msgs, ok \in BOOLEAN : DeliveryReturns(m, ok)
    \/ \E m \in Msgs : ToolReturns(m, "result", 0)
    \/ \E c \in Channels : TimerFires(c)
    \/ \E c \in Channels : ResetSession(c)

SpecPair == Init /\ [][NextPair]_vars

\* the state is the world W
Is(W) ==
    /\ conversationHistory = W.S.conversationHistory
    /\ arrays = W.S.arrays
    /\ sessionStats = W.S.sessionStats
    /\ inactivityTimers = W.S.inactivityTimers
    /\ timeouts = W.S.timeouts
    /\ processingLocks = W.locks
    /\ messageQueues = W.queues
    /\ channelNames = W.names
    /\ immediates = W.imm
    /\ webhook = W.hook
    /\ meetChat = W.chat
    /\ calls = W.cs

\* the manager after construction (lines 726-745)
NewWorld ==
    [S |-> [conversationHistory |-> EmptyMap, arrays |-> [a \in ArrIds |-> <<>>],
            sessionStats |-> EmptyMap, inactivityTimers |-> EmptyMap,
            timeouts |-> [c \in Channels |-> 0]],
     locks |-> {}, queues |-> [c \in Channels |-> <<>>], names |-> EmptyMap,
     imm |-> <<>>, hook |-> <<>>, chat |-> <<>>, cs |-> [m \in Msgs |-> NoCall]]

\* One run: the first sendMessage call of a fresh manager has reached its
\* first await; the stub answers with any response of LoopResponses in the
\* first MaxVaryRounds calls and asks for tools as long as it likes.
InitLoop ==
    /\ \E c \in Channels, name \in ChannelNameArgs : Is(Submit(NewWorld, 1, c, name))
    /\ activeBots = EmptyMap
    /\ nextMsg = 2
    /\ agent = AgentIdle
    /\ MeetIdle
    /\ CliqIdle

NextLoop ==
    \/ \E m \in Msgs, resp \in LoopResponses :
           ModelReturns(m, resp, MaxVaryRounds, MAX_TOOL_ROUNDS + 1)
    \/ \E m \in Msgs : ModelFails(m)
    \/ \E m \in Msgs, ok \in BOOLEAN : DeliveryReturns(m, ok)
    \/ \E m \in Msgs, outcome \in {"result", "throws"} : ToolReturns(m, outcome, MaxVaryRounds)
    \/ \E c \in Channels : TimerFires(c)
    \/ \E c \in Channels : ResetSession(c)
    \/ \E b \in BotIds, c \in Channels : BotJoins(b, c)
    \/ \E b \in BotIds : BotLeaves(b)

SpecLoop == InitLoop /\ [][NextLoop]_vars

\* --------------------------------------------------------------- ClaudeAgent
\* ClaudeAgent.claudeReasoningLoop (src/unnamed/part_004 176-301), one run of
\* it, with the executeTool it imports next to toolDefinitions
\* (src/ARCHITECTURE_V2.md 694-738). The awaits are client.messages.create
\* (199) and executeTool (231); the code between two awaits is one step.

managerVars ==
    <<conversationHistory, arrays, sessionStats, inactivityTimers, timeouts,
      processingLocks, messageQueues, channelNames, immediates, activeBots,
      webhook, meetChat, nextMsg, calls>>

AgentTools == {"query_logs", "create_jira_ticket", "ignore_message"}

\* line 177: skipTools ? 1 : (parseInt(MAX_CONVERSATION_TURNS) || 10), env
\* being the number parseInt reads (0 when it is unset or not a number)
maxTurnsOf(skipTools, env) ==
    IF skipTools THEN 1 ELSE IF env = 0 THEN 10 ELSE env

AgentResponse(stop_reason, content) ==
    [stop_reason |-> stop_reason, content |-> content]

\* what the model may answer to messages.create
AgentResponses ==
    { AgentResponse("end_turn", <<TextBlock(<<"o","k">>)>>),
      AgentResponse("end_turn", <<>>),
      AgentResponse("max_tokens", <<TextBlock(<<"o">>)>>),
      AgentResponse("tool_use", <<ToolUse("t1", "create_jira_ticket")>>),
      AgentResponse("tool_use", <<TextBlock(<<"o","k">>),
                                  ToolUse("t1", "create_jira_ticket"),
                                  ToolUse("t2", "ignore_message")>>),
      AgentResponse("tool_use", <<ToolUse("t1", "query_logs")>>) }

AnalysisComplete == <<"Analysis complete.">>

AnalysisTimedOut ==
    <<"Analysis timed out. Please continue the investigation manually.">>

\* the result object of a tool call
Result(error, success, ignored, ticket_key) ==
    [error |-> error, success |-> success, ignored |-> ignored,
     ticket_key |-> ticket_key]

\* createJiraTicket resolved (list-files.js 234-244): success and the key of
\* the issue Jira created, issues being the number it had created before
Ticket(issues) == Result(FALSE, TRUE, FALSE, issues + 1)

\* executeTool (ARCHITECTURE_V2.md 694-738): ignore_message is answered on
\* the spot, the other tools by their handler; a handler that throws, like an
\* unknown tool, gives the error object of the catch. It never throws.
executeTool(toolName, outcome, issues) ==
    IF toolName = "ignore_message" THEN Result(FALSE, FALSE, TRUE, 0)
    ELSE IF toolName \notin AgentTools \/ outcome = "throws"
         THEN Result(TRUE, FALSE, FALSE, 0)
    ELSE IF toolName = "create_jira_ticket" THEN Ticket(issues)
    ELSE Result(FALSE, FALSE, FALSE, 0)

\* JSON.stringify(result) as the tool_result block of lines 233-237
Stringify(id, result) ==
    Block("tool_result",
          << IF result.error THEN "error"
             ELSE IF result.ignored THEN "ignored"
             ELSE IF result.success THEN "success" ELSE "result" >>,
          id, "", FALSE, result.ticket_key)

\* a return statement of the loop
Return(a, finalResponse, jiraTicket, ignored) ==
    [a EXCEPT !.pc = "returned",
              !.returned = [finalResponse |-> finalResponse,
                            jiraTicket |-> jiraTicket, ignored |-> ignored]]

\* the ignore_message return of lines 251-262, which drops the ticket
IgnoredReturn(a) == Return(a, <<>>, NoTicket, TRUE)

\* lines 182-199 and 291-300: the loop test; a turn starts with the model
\* call, and the loop left returns the timeout text with the ticket
WhileTurn(a) ==
    IF a.turn < a.maxTurns
    THEN [a EXCEPT !.turn = @ + 1, !.pc = "create"]
    ELSE Return(a, AnalysisTimedOut, a.jiraTicket, FALSE)

\* lines 278-284: the results go to the messages and the loop continues
PushResults(a) ==
    WhileTurn([a EXCEPT !.messages = Append(@, Turn("user", a.toolResults)),
                        !.toolResults = <<>>, !.toolCalls = <<>>, !.toolIdx = 0])

\* lines 202-226 and 287-300: the response of a turn
AfterResponse(a, response) ==
    IF response.stop_reason = "end_turn"
    THEN LET texts == SelectSeq(response.content, LAMBDA b : b.type = "text")
         IN  Return(a, IF texts = <<>> \/ texts[1].text = <<>>
                       THEN AnalysisComplete ELSE texts[1].text,
                    a.jiraTicket, FALSE)
    ELSE IF response.stop_reason = "tool_use"
    THEN LET a1 == [a EXCEPT !.messages = Append(@, Turn("assistant", response.content)),
                             !.toolCalls = ToolCalls(response.content)]
         IN  IF a1.toolCalls = <<>> THEN PushResults(a1)
             ELSE [a1 EXCEPT !.pc = "tool", !.toolIdx = 1]
    ELSE Return(a, AnalysisTimedOut, a.jiraTicket, FALSE)

\* lines 231-262 and 278-284: executeTool returned result for the tool call
\* the loop is at
AfterExecute(a, result) ==
    LET toolUse == a.toolCalls[a.toolIdx]
        a1 == [a EXCEPT !.toolResults = Append(@, Stringify(toolUse.id, result)),
                        !.toolsUsed = Append(@, [tool |-> toolUse.name,
                                                 success |-> ~result.error]),
                        !.jiraTicket =
                            IF toolUse.name = "create_jira_ticket" /\ result.success
                            THEN result ELSE @]
    IN  IF toolUse.name = "ignore_message" /\ result.ignored
        THEN IgnoredReturn(a1)
        ELSE IF a.toolIdx < Len(a.toolCalls)
        THEN [a1 EXCEPT !.toolIdx = @ + 1]
        ELSE PushResults(a1)

\* processMessage calls the loop (line 148): lines 176-199 up to the first
\* model call
ClaudeReasoningLoop(skipTools, env) ==
    /\ agent.pc = "idle"
    /\ agent' = WhileTurn([agent EXCEPT !.skipTools = skipTools,
                                        !.maxTurns = maxTurnsOf(skipTools, env)])
    /\ UNCHANGED <<managerVars, meetVars, cliqVars>>

\* client.messages.create resolves (line 199); without tools in the request
\* (195-197) the model cannot ask for one
AgentModelReturns(response) ==
    /\ agent.pc = "create"
    /\ agent.skipTools => response.stop_reason # "tool_use"
    /\ agent' = AfterResponse(agent, response)
    /\ UNCHANGED <<managerVars, meetVars, cliqVars>>

\* executeTool resolves (line 231); a ticket created is one more issue in Jira
AgentToolReturns(outcome) ==
    /\ agent.pc = "tool"
    /\ LET result == executeTool(agent.toolCalls[agent.toolIdx].name, outcome,
                                 agent.issues)
       IN  agent' = AfterExecute([agent EXCEPT !.issues =
                                      IF result.success THEN @ + 1 ELSE @], result)
    /\ UNCHANGED <<managerVars, meetVars, cliqVars>>

NextAgent ==
    \/ \E skipTools \in BOOLEAN, env \in 1..MaxTurns : ClaudeReasoningLoop(skipTools, env)
    \/ \E response \in AgentResponses : AgentModelReturns(response)
    \/ \E outcome \in {"result", "throws"} : AgentToolReturns(outcome)

SpecAgent == Init /\ [][NextAgent]_vars

\* ------------------------------------------------- transcript buffering
\* routes/meet.js 158-367: the complete transcripts of a bot are buffered until
\* BUFFER_TIMEOUT_MS of silence and sent to the agent as one message; what
\* arrives while the agent is processing waits in the pending buffer.

Speakers == {"Ann", "Bob"}

NoSpeaker == "null"

\* the bufferData of a bot at its first transcript (lines 161-169)
NewBuffer ==
    [currentBuffer |-> <<>>, pendingBuffer |-> <<>>, isProcessing |-> FALSE,
     timer |-> "null", lastSpeaker |-> NoSpeaker, speakers |-> {},
     lastTranscriptTime |-> 0]

\* the two variables the buffer functions touch, as one record
MeetStore == [buffers |-> transcriptBuffers, timeouts |-> bufferTimeouts]

\* mutant: the timer is armed although the agent is processing
TimerArmedAnyway(B, b) ==
    [B EXCEPT !.timeouts[b] = @ + 1, !.buffers[b].timer = "live"]

\* lines 189-193: while the agent is processing no timer is started
WhileProcessing(B, b) == B

\* if (bufferData.timer) clearTimeout(bufferData.timer): an armed timer is
\* disarmed, a fired one is left alone; then setTimeout (196-206, 358-366)
ArmBufferTimer(B, b) ==
    LET B1 == IF B.buffers[b].timer = "live"
              THEN [B EXCEPT !.timeouts[b] = @ - 1] ELSE B
    IN  [B1 EXCEPT !.timeouts[b] = @ + 1, !.buffers[b].timer = "live"]

\* bufferTranscript(botId, speaker, transcript) at time t (lines 158-207)
bufferTranscript(B, b, speaker, t) ==
    LET B1   == IF MapHas(B.buffers, b) THEN B
                ELSE [B EXCEPT !.buffers = MapSet(@, b, NewBuffer)]
        d    == B1.buffers[b]
        item == [speaker |-> speaker, transcript |-> t, timestamp |-> t]
        d1   == [d EXCEPT !.speakers = @ \cup {speaker},
                          !.lastTranscriptTime = t,
                          !.lastSpeaker = speaker,
                          !.pendingBuffer = IF d.isProcessing THEN Append(@, item) ELSE @,
                          !.currentBuffer = IF d.isProcessing THEN @ ELSE Append(@, item)]
        B2   == [B1 EXCEPT !.buffers[b] = d1]
    IN  IF d.isProcessing THEN WhileProcessing(B2, b) ELSE ArmBufferTimer(B2, b)

\* lines 248-263: the text of the buffered items, with the speakers' names
\* when there is more than one speaker, and the speaker of the message
SpeakersOf(buffer) == {buffer[i].speaker : i \in DOMAIN buffer}

formattedTranscript(buffer) ==
    [i \in DOMAIN buffer |->
        [speaker |-> IF Cardinality(SpeakersOf(buffer)) > 1
                     THEN buffer[i].speaker ELSE NoSpeaker,
         transcript |-> buffer[i].transcript]]

SpeakerOf(d) ==
    IF Cardinality(SpeakersOf(d.currentBuffer)) = 1
    THEN d.lastSpeaker ELSE "Multiple speakers"

\* processPendingBuffer(botId) (lines 340-367)
processPendingBuffer(B, b) ==
    IF ~MapHas(B.buffers, b) \/ Len(B.buffers[b].pendingBuffer) = 0
    THEN B
    ELSE LET d  == B.buffers[b]
             d1 == [d EXCEPT !.currentBuffer = d.pendingBuffer,
                             !.pendingBuffer = <<>>,
                             !.speakers = SpeakersOf(d.pendingBuffer),
                             !.lastSpeaker = d.pendingBuffer[Len(d.pendingBuffer)].speaker]
         IN  ArmBufferTimer([B EXCEPT !.buffers[b] = d1], b)

\* the finally block of processBufferedTranscripts (lines 329-334)
Finally(B, b) ==
    processPendingBuffer([B EXCEPT !.buffers[b].isProcessing = FALSE], b)

SetMeetStore(B) ==
    /\ transcriptBuffers' = B.buffers
    /\ bufferTimeouts' = B.timeouts

\* bots whose buffered transcripts still have to be submitted
Buffered ==
    {b \in DOMAIN transcriptBuffers :
        Len(transcriptBuffers[b].currentBuffer) + Len(transcriptBuffers[b].pendingBuffer) > 0}

\* handleRealtimeTranscript hands a complete transcript of the bot's meeting
\* to bufferTranscript (lines 372-413); there is a sendMessage call left for
\* every buffer still to be submitted
BufferTranscript(b, speaker) ==
    /\ now < MaxTranscripts
    /\ nextMsg + Cardinality(Buffered \cup {b}) <= MaxMsgs + 1
    /\ SetMeetStore(bufferTranscript(MeetStore, b, speaker, now + 1))
    /\ now' = now + 1
    /\ UNCHANGED <<managerVars, agent, submissions, cliqVars>>

\* an armed buffer timeout of bot b fires and calls processBufferedTranscripts
\* (lines 203-206, 363-366, 239-317) for a bot of the registry: with an empty
\* buffer it returns, else it marks the bot as processing, empties the buffer
\* and calls sendMessage for the bot's channel
BufferTimerFires(b) ==
    /\ bufferTimeouts[b] > 0
    /\ MapHas(activeBots, b)
    /\ \E held \in BOOLEAN :
         /\ held => transcriptBuffers[b].timer = "live"
         /\ ~held => bufferTimeouts[b] > (IF transcriptBuffers[b].timer = "live" THEN 1 ELSE 0)
         /\ LET B1 == [MeetStore EXCEPT !.timeouts[b] = @ - 1,
                                        !.buffers[b].timer = IF held THEN "fired" ELSE @]
                d  == B1.buffers[b]
            IN  IF Len(d.currentBuffer) = 0
                THEN /\ SetMeetStore(B1)
                     /\ UNCHANGED <<managerVars, submissions>>
                ELSE /\ SetMeetStore([B1 EXCEPT !.buffers[b].isProcessing = TRUE,
                                                !.buffers[b].currentBuffer = <<>>,
                                                !.buffers[b].lastSpeaker = NoSpeaker,
                                                !.buffers[b].speakers = {}])
                     /\ submissions' =
                            Append(submissions,
                                   [botId |-> b, channelId |-> activeBots[b],
                                    speaker |-> SpeakerOf(d),
                                    formattedTranscript |-> formattedTranscript(d.currentBuffer),
                                    call |-> nextMsg, pc |-> "sendMessage"])
                     /\ ManagerBecomes(Submit(World, nextMsg, activeBots[b], NoName))
                     /\ nextMsg' = nextMsg + 1
                     /\ UNCHANGED activeBots
    /\ UNCHANGED <<agent, now, cliqVars>>

\* the sendMessage call of a submission has settled and the response, if any,
\* was sent to the meeting chat (lines 317-328): the finally block runs
SubmissionSettles(i) ==
    /\ i \in DOMAIN submissions
    /\ submissions[i].pc = "sendMessage"
    /\ calls[submissions[i].call].outcome.state # "pending"
    /\ submissions' = [submissions EXCEPT ![i].pc = "done"]
    /\ SetMeetStore(Finally(MeetStore, submissions[i].botId))
    /\ UNCHANGED <<managerVars, agent, now, cliqVars>>

\* the channel a bot joined its meeting for
BotChannel(b) == IF b = 1 THEN "c1" ELSE "c2"

\* every bot has joined the meeting of its channel (part_003 21-75)
InitMeet ==
    /\ Is(NewWorld)
    /\ activeBots = [b \in BotIds |-> BotChannel(b)]
    /\ nextMsg = 1
    /\ agent = AgentIdle
    /\ MeetIdle
    /\ CliqIdle

\* Meetings: the transcripts of the bots, and Cliq messages in channel c1; a
\* run is one model call that fails or answers with a final text, which is
\* not sent by webhook, the channel being in a meeting (line 982).
NextMeet ==
    \/ \E b \in BotIds, speaker \in Speakers : BufferTranscript(b, speaker)
    \/ \E b \in BotIds : BufferTimerFires(b)
    \/ \E i \in 1..MaxMsgs : SubmissionSettles(i)
    \/ SendMessage("c1", "#bugs", MaxMsgs - Cardinality(Buffered))
    \/ ImmediateFires
    \/ \E m \in Msgs : ModelReturns(m, PlainFinal, 0, 0)
    \/ \E m \in Msgs : ModelFails(m)

SpecMeet == InitMeet /\ [][NextMeet]_vars

\* ---------------------------------------------------------------- join tool
\* tools/join-meet/index.js 32-67 and MeetBotManager.joinMeeting (part_003
\* 21-75), called by the tool loop of _processMessage (lines 1016-1039) with
\* context = { channelId }.

JoinBotIds == 1..MaxJoinBots

AlreadyInMeeting == <<"Already in a meeting for this channel">>

JoiningMeet == <<"Joining Google Meet!">>

FailedToJoin == <<"Failed to join meeting">>

\* a response with two calls of the join tool
JoinTwice == Response(<<ToolUse("t1", JoinTool), ToolUse("t2", JoinTool)>>)

JoinResponses == {PlainFinal, JoinTwice}

\* lines 1023-1029 for the string the join tool returns
JoinResolved(W, m, toolCall, content) ==
    AfterTool([W EXCEPT !.cs[m].toolResults =
                  Append(@, ToolResult(toolCall.id, content))], m)

\* the model answers a message with calls of the join tool, in the first
\* `rounds` model calls of a run
ModelAsksToJoin(m, resp, rounds) ==
    /\ resp \in JoinResponses
    /\ calls[m].apiCalls > rounds => Len(ToolCalls(resp.content)) = 0
    /\ Responds(m, resp)

\* await executeTool(...) of a join tool call settles: with an existing bot the
\* tool has returned its warning (join-meet 47-49); else axios.post has
\* resolved with the id b of a new bot, which joinMeeting registers for the
\* channel (part_003 58-67), or rejected, which the tool turns into a failure
\* text (join-meet 63-66). The tool never throws.
JoinReturns(m, b, ok) ==
    /\ calls[m].pc = "tool"
    /\ CurrentTool(calls[m]).name = JoinTool
    /\ LET r         == calls[m]
           registers == r.existingBot = 0 /\ ok
           content   == IF r.existingBot # 0 THEN AlreadyInMeeting
                        ELSE IF ok THEN JoiningMeet ELSE FailedToJoin
       IN  /\ registers => ~MapHas(activeBots, b)
           /\ activeBots' = IF registers THEN MapSet(activeBots, b, r.channelId)
                            ELSE activeBots
           /\ Becomes(JoinCheck(JoinResolved(World, m, CurrentTool(r), content),
                                activeBots', m))
    /\ UNCHANGED nextMsg

\* Joining: PairMsgs messages on two channels, the model asks for the join
\* tool twice in its first answer, bots leave their meetings.
NextJoin ==
    \/ \E c \in Channels : SendMessage(c, NameOf(c), PairMsgs)
    \/ ImmediateFires
    \/ \E m \in Msgs, resp \in JoinResponses : ModelAsksToJoin(m, resp, 1)
    \/ \E m \in Msgs : ModelFails(m)
    \/ \E m \in Msgs, ok \in BOOLEAN : DeliveryReturns(m, ok)
    \/ \E m \in Msgs, b \in JoinBotIds, ok \in BOOLEAN : JoinReturns(m, b, ok)
    \/ \E b \in JoinBotIds : BotLeaves(b)

SpecJoin == Init /\ [][NextJoin]_vars

\* ------------------------------------------------------------- Cliq service
\* services/cliq.js 9-128: the token cache, refreshAccessToken,
\* getValidAccessToken and sendCliqMessage. The awaits are the token request
\* (line 28) and the message request (line 93); the code between two awaits
\* is one step.

\* the cache and the calls, as one record
Cliq == [token |-> cachedAccessToken, expires |-> tokenExpiresAt, cs |-> cliqCalls]

\* throw new Error('Cliq API token not configured') (line 85), outside the try
NotConfigured(C, k) ==
    [C EXCEPT !.cs[k].pc = "rejected", !.cs[k].error = "Cliq API token not configured"]

\* a throw inside the try: the catch rethrows it as 'Failed to send message'
\* (lines 124-127)
FailedToSend(C, k) ==
    [C EXCEPT !.cs[k].pc = "rejected", !.cs[k].error = "Failed to send message"]

\* lines 84-93 with the token getValidAccessToken returned: without a token
\* the call throws, else the message is posted
Post(C, k, apiToken) ==
    IF apiToken = "undefined" THEN NotConfigured(C, k)
    ELSE [C EXCEPT !.cs[k].pc = "fetch", !.cs[k].apiToken = apiToken,
                   !.cs[k].attempts = @ + 1]

\* refreshAccessToken up to its await (lines 15-28): without the credentials it
\* returns null at once
CanRefresh(env) == env.creds

\* sendCliqMessage up to its first await (lines 81-93), getValidAccessToken
\* included (66-76): a token that was never refreshed or is due is refreshed
\* first
sendCliqMessage(C, env, k) ==
    IF C.expires \in {"null", "past"} /\ CanRefresh(env)
    THEN [C EXCEPT !.cs[k].pc = "getValidAccessToken"]
    ELSE Post(C, k, C.token)

\* refreshAccessToken after its await (lines 41-60): a new token is cached with
\* its expiry, which is later, or not when expires_in is under five minutes;
\* any failure returns null
Refreshed(C, newToken, expires) ==
    IF newToken THEN [C EXCEPT !.token = "refreshed", !.expires = expires] ELSE C

\* lines 108-115: the API answered oauthtoken_invalid; the token is refreshed
TokenInvalid(C, env, k) ==
    IF CanRefresh(env) THEN [C EXCEPT !.cs[k].pc = "refreshAccessToken"]
    ELSE FailedToSend(C, k)

\* lines 112-118: with a new token sendCliqMessage is called again and its
\* result returned, else the call throws
Retry(C, env, k, newToken) ==
    IF newToken
    THEN sendCliqMessage([C EXCEPT !.cs[k].depth = @ + 1], env, k)
    ELSE FailedToSend(C, k)

CliqBecomes(C) ==
    /\ cachedAccessToken' = C.token
    /\ tokenExpiresAt' = C.expires
    /\ cliqCalls' = C.cs
    /\ UNCHANGED <<cliqEnv, managerVars, agent, meetVars>>

\* the ask_user tool calls sendCliqMessage (tools/ask-user.js 27)
SendCliqMessage(k) ==
    /\ cliqCalls[k].pc = "none"
    /\ CliqBecomes(sendCliqMessage(Cliq, cliqEnv, k))

\* the token request of a call settles (line 28): in getValidAccessToken the
\* call goes on with the new token or the cached one (68-75), after an invalid
\* token with the retry
RefreshReturns(k, newToken, expires) ==
    /\ cliqCalls[k].pc \in {"getValidAccessToken", "refreshAccessToken"}
    /\ LET C1 == Refreshed(Cliq, newToken, expires)
       IN  CliqBecomes(IF cliqCalls[k].pc = "getValidAccessToken"
                       THEN Post(C1, k, C1.token)
                       ELSE Retry(C1, cliqEnv, k, newToken))

\* the message request of a call settles (lines 93-121); the API answers one
\* call with oauthtoken_invalid MaxInvalid times at most
FetchReturns(k, answer) ==
    /\ cliqCalls[k].pc = "fetch"
    /\ answer = "oauthtoken_invalid" => cliqCalls[k].attempts <= MaxInvalid
    /\ CliqBecomes(IF answer = "ok" THEN [Cliq EXCEPT !.cs[k].pc = "resolved"]
                   ELSE IF answer = "oauthtoken_invalid"
                        THEN TokenInvalid(Cliq, cliqEnv, k)
                        ELSE FailedToSend(Cliq, k))

\* time passes: Date.now() has reached tokenExpiresAt
TokenExpires ==
    /\ tokenExpiresAt = "later"
    /\ tokenExpiresAt' = "past"
    /\ UNCHANGED <<cliqEnv, cachedAccessToken, cliqCalls, managerVars, agent, meetVars>>

\* the service in any environment
InitCliq ==
    /\ Is(NewWorld)
    /\ activeBots = EmptyMap
    /\ nextMsg = 1
    /\ agent = AgentIdle
    /\ MeetIdle
    /\ \E env \in [token : BOOLEAN, creds : BOOLEAN] : CliqLoaded(env)

NextCliq ==
    \/ \E k \in SendIds : SendCliqMessage(k)
    \/ \E k \in SendIds, newToken \in BOOLEAN, expires \in {"later", "past"} :
           RefreshReturns(k, newToken, expires)
    \/ \E k \in SendIds, answer \in {"ok", "oauthtoken_invalid", "error"} :
           FetchReturns(k, answer)
    \/ TokenExpires

SpecCliq == InitCliq /\ [][NextCliq]_vars

\* ------------------------------------------------------------------- claims

RunningOn(c) == {m \in Msgs : calls[m].channelId = c /\ calls[m].pc \in Running}

\* C1: for every channel at most one _processMessage run is in flight at any
\* time, whatever the interleaving of sendMessage calls, completions, failures,
\* resets and timer firings.
C1_OneRunPerChannel == \A c \in Channels : Cardinality(RunningOn(c)) <= 1

\* C1 witness: a second message arrived while a run was in flight and waits.
C1_Witness ==
    \E c \in Channels : RunningOn(c) # {} /\ Len(messageQueues[c]) > 0

\* the run of call m starts in this step
Starts(m) == calls[m].pc \in {"none", "waiting"} /\ calls'[m].pc \in Running

\* C2 (as claimed): messages of one channel start their runs in arrival order:
\* when the run of a call starts, no call that arrived earlier for the same
\* channel is still waiting for its run.
C2_StartsInArrivalOrder ==
    [][\A m \in Msgs : Starts(m) =>
          \A k \in 1..(m - 1) :
              calls[k].channelId = calls'[m].channelId => calls[k].pc # "waiting"]_vars

\* C3: a channel's lock is held exactly while a run for that channel is in
\* flight; after a run has returned or thrown the lock is free.
C3_LockOnlyWhileRunning ==
    \A c \in Channels : c \in processingLocks <=> RunningOn(c) # {}

\* C3 witness: a run has thrown and the lock of its channel is free.
C3_Witness ==
    \E m \in Msgs : calls[m].pc = "threw" /\ calls[m].channelId \notin processingLocks

\* the run of call m ends in this step
Ends(m) == calls[m].pc \in Running /\ calls'[m].pc \in {"returned", "threw"}

\* C4 (as claimed): whenever a run ends, by returning or by throwing, with a
\* non-empty pending list, the oldest pending entry is removed and submitted.
C4_DrainOnEveryCompletion ==
    [][\A m \in Msgs :
          LET c == calls[m].channelId
          IN  (Ends(m) /\ Len(messageQueues[c]) > 0) =>
                  /\ messageQueues'[c] = Tail(messageQueues[c])
                  /\ immediates' = Append(immediates, Head(messageQueues[c]))]_vars

\* a step that the program takes without a further message: a setImmediate
\* callback runs, a model call or a delivery settles. (The idle timeout and the
\* reset leave the queues, the locks and the calls' positions alone.)
RunStep ==
    \/ ImmediateFires
    \/ \E m \in Msgs : ModelReturns(m, PlainFinal, 0, 0)
    \/ \E m \in Msgs : ModelFails(m)
    \/ \E m \in Msgs, ok \in BOOLEAN : DeliveryReturns(m, ok)

\* C5 (as claimed): under fairness every queued message is eventually run and
\* its deferred result completes, also when no further message arrives: while
\* a message is queued the program has a step left to take (a callback to run,
\* a model call or delivery to settle), so it never comes to rest with a
\* message still queued.
C5_QueuedEventuallyRun ==
    \A m \in Msgs : calls[m].pc = "waiting" => ENABLED RunStep

\* the entries of all pending structures: the queues and the setImmediate queue
Occurrences(m) ==
    Cardinality({i \in DOMAIN immediates : immediates[i] = m})
    + Cardinality({<<c, i>> \in Channels \X (1..MaxMsgs) :
                      i <= Len(messageQueues[c]) /\ messageQueues[c][i] = m})

UserTurns(m) ==
    Cardinality({<<a, i>> \in ArrIds \X (1..(4 * MaxMsgs)) :
                    i <= Len(arrays[a]) /\ arrays[a][i] = Turn("user", UserContent(m))})

\* C6: a queued entry is consumed exactly once: a waiting call is held by
\* exactly one entry (of its own channel's queue or of the setImmediate queue),
\* no entry is left for a call whose run has started, the user turn of a call
\* is in the histories at most once, and a waiting call leaves the pending
\* structures only by starting its run, which then never starts again.
C6_ConsumedOnce ==
    /\ [](\A m \in Msgs :
            /\ Occurrences(m) = (IF calls[m].pc = "waiting" THEN 1 ELSE 0)
            /\ \A c \in Channels : \A i \in 1..Len(messageQueues[c]) :
                   messageQueues[c][i] = m => calls[m].channelId = c
            /\ UserTurns(m) <= 1)
    /\ [][\A m \in Msgs :
            /\ calls[m].pc = "waiting" => calls'[m].pc \in {"waiting", "create0"}
            /\ calls[m].pc \notin {"none", "waiting"} => calls'[m].pc \notin {"waiting", "create0"}
                                                           \/ calls'[m].pc = calls[m].pc]_vars

\* C6 witness: a call was dequeued and re-submitted behind the run of a call
\* that arrived after it, and waits in the queue again.
C6_Witness ==
    \E m \in Msgs, k \in Msgs :
        /\ m < k
        /\ calls[m].channelId = calls[k].channelId
        /\ calls[k].pc \in Running
        /\ calls[m].pc = "waiting"
        /\ \E i \in 1..Len(messageQueues[calls[m].channelId]) :
               messageQueues[calls[m].channelId][i] = m

\* what the session store and the queue hold for one channel
ChannelState(c) ==
    << c \in processingLocks,
       messageQueues[c],
       IF MapHas(conversationHistory, c) THEN <<arrays[conversationHistory[c]]>> ELSE <<>>,
       IF MapHas(sessionStats, c) THEN <<sessionStats[c]>> ELSE <<>>,
       IF MapHas(inactivityTimers, c) THEN <<inactivityTimers[c]>> ELSE <<>>,
       timeouts[c] >>

\* C7: channels are independent: a step changes the lock, pending list,
\* history, stats and timer of at most one channel, and a sendMessage call for
\* a channel whose lock is free starts its run in the same step whatever the
\* state of the other channels.
C7_ChannelsIndependent ==
    [][/\ \A x \in Channels, y \in Channels :
            (x # y /\ ChannelState(x)' # ChannelState(x)) => ChannelState(y)' = ChannelState(y)
       /\ \A y \in Channels :
            (/\ nextMsg' = nextMsg + 1
             /\ calls'[nextMsg].channelId = y
             /\ y \notin processingLocks)
            => (calls'[nextMsg].pc = "create0" /\ y \in processingLocks')]_vars

\* C7 witness: runs of the two channels are in flight at the same time.
C7_Witness == \A c \in Channels : RunningOn(c) # {}

\* 'Analysis timed out...' of ClaudeAgent.claudeReasoningLoop, the only
\* timeout message of the repository
TimeoutMessage == <<"Analysis timed out. Please continue the investigation manually.">>

\* C8 (as claimed, for the channel manager): a run whose model asked for a
\* tool in every response, the last one included, has made exactly
\* MAX_TOOL_ROUNDS model calls and returns the timeout message.
C8_TurnLimit ==
    \A m \in Msgs :
        (calls[m].pc = "returned" /\ Len(ToolCalls(calls[m].response)) > 0) =>
            /\ calls[m].apiCalls = MAX_TOOL_ROUNDS
            /\ calls[m].outcome.value = TimeoutMessage

\* the results collected so far answer the first tool calls, in order; the
\* result of a tool executeTool does not know is an is_error result
ResultsMatch(toolCalls, results) ==
    /\ Len(results) <= Len(toolCalls)
    /\ \A i \in 1..Len(results) :
         /\ results[i].type = "tool_result"
         /\ results[i].id = toolCalls[i].id
         /\ results[i].is_error <=> (Len(results[i].text) = 2 /\ results[i].text[1] = "Error: ")
         /\ toolCalls[i].name \notin KnownTools =>
                results[i].is_error /\ results[i].text = <<"Error: ", "Unknown tool">>

\* C9: a tool that throws does not abort the run: its error is recorded as an
\* is_error result under the invocation's id, the remaining invocations of the
\* turn are executed, the batch with the error result is the last turn of the
\* history when the next model call is made, and a run is aborted by a failed
\* model call only.
C9_ToolErrorsContained ==
    \A m \in Msgs :
        LET r == calls[m]
            toolCalls == ToolCalls(r.response)
        IN  /\ r.pc = "tool" =>
                 /\ Len(r.toolResults) = r.toolIdx - 1
                 /\ ResultsMatch(toolCalls, r.toolResults)
            /\ r.pc = "create" =>
                 LET h == arrays[r.history]
                 IN  /\ Len(r.toolResults) = Len(toolCalls)
                     /\ ResultsMatch(toolCalls, r.toolResults)
                     /\ Len(h) >= 2
                     /\ h[Len(h)] = Turn("user", r.toolResults)
                     /\ h[Len(h) - 1] = Turn("assistant", r.response)
            /\ r.pc = "threw" => r.outcome.value[Len(r.outcome.value)] = "API error"

\* C9 witness: a run has reached DONE after a turn whose first tool threw and
\* whose second tool was still executed.
C9_Witness ==
    \E m \in Msgs :
        /\ calls[m].pc = "returned"
        /\ calls[m].outcome.state = "fulfilled"
        /\ MapHas(conversationHistory, calls[m].channelId)
        /\ LET h == arrays[conversationHistory[calls[m].channelId]]
           IN  \E i \in 1..Len(h) :
                   /\ h[i].role = "user"
                   /\ Len(h[i].content) = 2
                   /\ h[i].content[1].type = "tool_result" /\ h[i].content[1].is_error
                   /\ h[i].content[2].type = "tool_result" /\ ~h[i].content[2].is_error
                   /\ i < Len(h)

\* the claim's sentinel test: the trimmed text equals or contains [SILENT],
\* whatever the case of its letters
ClaimedSentinel(text) ==
    LET t == trim(text)
    IN  \E i \in 0..(Len(t) - Len(SILENT)) :
            \A k \in 1..Len(SILENT) : UpperChar(t[i + k]) = SILENT[k]

ClaimedDeliverable(block) ==
    block.type = "text" /\ trim(block.text) # <<>> /\ ~ClaimedSentinel(block.text)

DeliveriesIn(hook, m, round, i) ==
    {k \in DOMAIN hook : hook[k].by = m /\ hook[k].round = round /\ hook[k].block = i}

\* the blocks of the current response the loop has gone through
ProcessedOf(r) ==
    IF r.pc = "deliver" THEN r.blockIdx
    ELSE IF r.pc \in {"tool", "create", "returned"} /\ r.toolRound < MAX_TOOL_ROUNDS
         THEN Len(r.response)
         ELSE 0

\* the text of the first n blocks that the loop accumulates
RECURSIVE TextOf(_, _)
TextOf(content, n) ==
    IF n = 0 THEN <<>>
    ELSE TextOf(content, n - 1)
         \o (IF content[n].type = "text" /\ trim(content[n].text) # <<>>
             THEN content[n].text ELSE <<>>)

\* the text of the assistant turns from turn i on
RECURSIVE TextFrom(_, _)
TextFrom(h, i) ==
    IF i > Len(h) THEN <<>>
    ELSE (IF h[i].role = "assistant" THEN TextOf(h[i].content, Len(h[i].content)) ELSE <<>>)
         \o TextFrom(h, i + 1)

\* what the model has said in run m up to the block being delivered
SaidSoFar(m) ==
    LET r == calls[m]
        h == arrays[r.history]
        u == CHOOSE i \in 1..Len(h) : h[i] = Turn("user", UserContent(m))
    IN  TextFrom(h, u + 1)
        \o (IF r.pc = "deliver" THEN TextOf(r.response, r.blockIdx) ELSE <<>>)

DeliveryAttempts(m) ==
    Cardinality({k \in DOMAIN webhook : webhook[k].by = m})
    + Cardinality({k \in DOMAIN meetChat : meetChat[k].by = m})

\* C11 (as claimed): a processed message ends with an answer chunk delivered,
\* with an error message delivered, or with nothing delivered because the
\* model's text was the sentinel: a run that failed, and a run that returned a
\* non-blank text free of the sentinel, has at least one delivery attempt to
\* the Cliq webhook or the Meet chat.
C11_ThreeOutcomes ==
    \A m \in Msgs :
        LET said == calls[m].assistantText
        IN  /\ calls[m].pc = "threw" => DeliveryAttempts(m) > 0
            /\ (calls[m].pc = "returned" /\ trim(said) # <<>> /\ ~ClaimedSentinel(said))
                   => DeliveryAttempts(m) > 0

\* C12 (as claimed, for messages of the Cliq handler): when the model call of
\* a run fails, the lock is released, the caller's promise is rejected and
\* 'ugh something broke: ...' is sent to the channel in the same step, for a
\* run started by the inbound call and for one started from the queue alike.
C12_ErrorReported ==
    [][\A m \in Msgs :
          (/\ CallerOf(calls[m]) = "cliq"
           /\ calls[m].pc \in Running
           /\ calls'[m].pc = "threw")
          => /\ calls[m].channelId \notin processingLocks'
             /\ calls'[m].outcome.state = "rejected"
             /\ Len(webhook') = Len(webhook) + 1
             /\ webhook'[Len(webhook')].by = m
             /\ webhook'[Len(webhook')].text[1] = "ugh something broke: "]_vars

\* C13 (as claimed): the inactivity timeout of a channel never closes the
\* channel's session while a run of the channel is in flight.
C13_NoEvictionInFlight ==
    [][\A c \in Channels :
          (TimerFires(c) /\ MapHas(conversationHistory, c)) => RunningOn(c) = {}]_vars

\* this step is an inbound sendMessage call for channel c
Arrives(c) == nextMsg' = nextMsg + 1 /\ calls'[nextMsg].channelId = c

TimerArmed(timers, c) == MapHas(timers, c) /\ timers[c] = "live"

\* C14 (as claimed): every inbound sendMessage call for a channel, a queued
\* one included, and every completion of a run of the channel rearms the
\* channel's inactivity timer: after such a step a timeout is armed for it.
C14_RearmedOnArrivalAndCompletion ==
    [][\A c \in Channels :
          (Arrives(c) \/ \E m \in Msgs : calls[m].channelId = c /\ Ends(m))
          => (TimerArmed(inactivityTimers', c) /\ timeouts'[c] = 1)]_vars

\* C15: a session is closed by the timeout armed last and by no other: a
\* channel has one armed timeout when it has a session and none otherwise
\* (arming cancels the timeout armed before); a run that starts on an existing
\* session rearms the timeout and keeps the history, to which it adds its user
\* turn; and when the timeout fires the history of the channel is cleared.
C15_EvictionByLastTimer ==
    /\ [](\A c \in Channels :
            /\ timeouts[c] = (IF TimerArmed(inactivityTimers, c) THEN 1 ELSE 0)
            /\ TimerArmed(inactivityTimers, c) <=> MapHas(conversationHistory, c)
            /\ MapHas(inactivityTimers, c) => inactivityTimers[c] = "live")
    /\ [][\A c \in Channels :
            /\ TimerFires(c) =>
                 /\ ~MapHas(conversationHistory', c)
                 /\ ~MapHas(inactivityTimers', c)
                 /\ timeouts'[c] = 0
            /\ \A m \in Msgs :
                 (Starts(m) /\ calls'[m].channelId = c /\ MapHas(conversationHistory, c)) =>
                     /\ MapHas(conversationHistory', c)
                     /\ conversationHistory'[c] = conversationHistory[c]
                     /\ arrays'[conversationHistory[c]] =
                            Append(arrays[conversationHistory[c]], Turn("user", UserContent(m)))
                     /\ TimerArmed(inactivityTimers', c)
                     /\ timeouts'[c] = 1]_vars

\* C15 witness: a second run has started on the session of a first one: the
\* history holds the turns of both and one timeout is armed.
C15_Witness ==
    \E c \in Channels, m \in Msgs, k \in Msgs :
        /\ m < k
        /\ MapHas(conversationHistory, c)
        /\ LET h == arrays[conversationHistory[c]]
           IN  /\ Len(h) >= 3
               /\ h[1] = Turn("user", UserContent(m))
               /\ h[3] = Turn("user", UserContent(k))
        /\ timeouts[c] = 1

\* C16 (as claimed): while a run is in flight the history stored for its
\* channel is the array the run appends to: no reset request and no timeout
\* removes or replaces it.
C16_HistoryOwnedByRun ==
    \A m \in Msgs :
        calls[m].pc \in Running =>
            /\ MapHas(conversationHistory, calls[m].channelId)
            /\ conversationHistory[calls[m].channelId] = calls[m].history

\* C17: the tool calls of a response are executed one at a time in the order
\* of the response: while the i-th is awaited the results of the first i-1
\* are collected, each under the id of its call; every settled tool adds
\* exactly one result, for the call that was awaited; after the last one the
\* results are pushed to the history as one user turn and only then is the
\* model called again.
C17_ToolRoundInOrder ==
    /\ [](\A m \in Msgs :
            LET r == calls[m]
                toolCalls == ToolCalls(r.response)
            IN  /\ r.pc = "tool" =>
                     /\ r.toolIdx \in 1..Len(toolCalls)
                     /\ Len(r.toolResults) = r.toolIdx - 1
                /\ r.pc \in {"tool", "create"} =>
                     \A i \in 1..Len(r.toolResults) :
                         /\ r.toolResults[i].type = "tool_result"
                         /\ r.toolResults[i].id = toolCalls[i].id)
    /\ [][\A m \in Msgs :
            LET r == calls[m]
                r2 == calls'[m]
                toolCalls == ToolCalls(r.response)
                n == Len(r.toolResults)
            IN  /\ (r.pc = "tool" /\ r2 # r) =>
                     /\ Len(r2.toolResults) = n + 1
                     /\ SubSeq(r2.toolResults, 1, n) = r.toolResults
                     /\ r2.toolResults[n + 1].id = toolCalls[r.toolIdx].id
                     /\ IF r.toolIdx < Len(toolCalls)
                        THEN /\ r2.pc = "tool"
                             /\ r2.toolIdx = r.toolIdx + 1
                             /\ r2.apiCalls = r.apiCalls
                             /\ arrays'[r.history] = arrays[r.history]
                        ELSE /\ r2.pc = "create"
                             /\ r2.apiCalls = r.apiCalls + 1
                             /\ Len(r2.toolResults) = Len(toolCalls)
                             /\ arrays'[r.history] =
                                    Append(arrays[r.history], Turn("user", r2.toolResults))
                /\ (r2.pc = "create" /\ r.pc # "create") =>
                     (r.pc = "tool" /\ r.toolIdx = Len(toolCalls))]_vars

\* C17 witness: the model is being called after a round of two tool calls
\* whose two results are the last turn of the history.
C17_Witness ==
    \E m \in Msgs :
        LET r == calls[m]
            h == arrays[r.history]
        IN  /\ r.pc = "create"
            /\ Len(ToolCalls(r.response)) = 2
            /\ Len(h[Len(h)].content) = 2
            /\ h[Len(h)].content[1].id = "t1"
            /\ h[Len(h)].content[2].id = "t2"

\* the webhook calls this step makes for call m
NewDeliveries(m) ==
    {k \in DOMAIN webhook' : k > Len(webhook) /\ webhook'[k].by = m /\ webhook'[k].block > 0}

\* C18: the text blocks of a response are delivered before its first tool
\* call is started: a delivery is made only by the block loop, for the block
\* the loop is at; no delivery of the run is made while a tool is awaited; and
\* when the first tool is started no block of the response is left that the
\* loop would send (a text block that is not blank and not silent, in a
\* channel with a stored name and no meeting).
C18_TextBeforeTools ==
    [][\A m \in Msgs :
          LET r == calls[m]
              r2 == calls'[m]
              c == r.channelId
              from == IF r.pc = "deliver" THEN r.blockIdx + 1 ELSE 1
          IN  /\ \A k \in NewDeliveries(m) :
                   /\ r.pc \in {"create0", "create", "deliver"}
                   /\ r2.pc = "deliver"
                   /\ webhook'[k].round = r2.toolRound
                   /\ webhook'[k].block = r2.blockIdx
                   /\ r2.response[r2.blockIdx].type = "text"
              /\ r.pc = "tool" => NewDeliveries(m) = {}
              /\ (r.pc \in {"create0", "create", "deliver"} /\ r2.pc = "tool") =>
                   /\ r2.toolResults = <<>>
                   /\ \A i \in from..Len(r2.response) :
                        ~(/\ ClaimedDeliverable(r2.response[i])
                          /\ MapHas(channelNames, c)
                          /\ ~isChannelInMeeting(activeBots, c))]_vars

\* C18 witness: the first tool of a response is awaited and the text blocks
\* before and after the tool calls of the response have both been delivered.
C18_Witness ==
    \E m \in Msgs :
        LET r == calls[m]
        IN  /\ r.pc = "tool"
            /\ r.toolIdx = 1
            /\ r.toolResults = <<>>
            /\ Len(r.response) = 4
            /\ r.response[2].type = "tool_use"
            /\ DeliveriesIn(webhook, m, r.toolRound, 1) # {}
            /\ DeliveriesIn(webhook, m, r.toolRound, 4) # {}

\* the cost of one model response (lines 1066-1068), in millionths of a dollar
CostOf(usage) == usage.input_tokens * INPUT_RATE + usage.output_tokens * OUTPUT_RATE

\* C19 (as claimed): cost accounting runs after every model response: when
\* a run that opened its session has returned, and the session holds the turns
\* of that run and no more, the messageCount of the channel is the number of
\* model calls of the run and its totalCost the sum of their costs.
C19_CostOnEveryResponse ==
    \A m \in Msgs :
        LET r == calls[m]
            c == r.channelId
            stats == getSessionStats(sessionStats, c)
        IN  (/\ r.pc = "returned"
             /\ MapHas(conversationHistory, c)
             /\ Len(arrays[conversationHistory[c]]) = 2 * r.apiCalls
             /\ arrays[conversationHistory[c]][1] = Turn("user", UserContent(m)))
            => /\ stats.messageCount = r.apiCalls
               /\ stats.totalCost = r.apiCalls * CostOf(Usage)

\* C20: while a channel has a session, the totalCost and the messageCount that
\* getSessionStats reports for the channel do not decrease from a state to the
\* next.
C20_StatsNeverDecrease ==
    [][\A c \in Channels :
          (MapHas(conversationHistory, c) /\ MapHas(conversationHistory', c)) =>
              /\ getSessionStats(sessionStats', c).totalCost
                     >= getSessionStats(sessionStats, c).totalCost
              /\ getSessionStats(sessionStats', c).messageCount
                     >= getSessionStats(sessionStats, c).messageCount]_vars

\* C20 witness: two runs have completed in one session and a third run has
\* started on it: the stats count both.
C20_Witness ==
    \E c \in Channels :
        /\ MapHas(conversationHistory, c)
        /\ RunningOn(c) # {}
        /\ getSessionStats(sessionStats, c).messageCount = 2
        /\ getSessionStats(sessionStats, c).totalCost = 2 * CostOf(Usage)

\* the history of the scenario of C21: the message, a response with one tool
\* call and no text, the tool's result, a final text
ToolThenText(m) ==
    << Turn("user", UserContent(m)),
       Turn("assistant", PlainTool.content),
       Turn("user", <<ToolResult("t1", <<"result">>)>>),
       Turn("assistant", PlainFinal.content) >>

\* call m went through the scenario of C21 on an idle channel with a stored
\* name: it was not queued, it opened the session, and the session holds the
\* turns of the scenario and no more
RanToolThenText(m) ==
    LET r == calls[m]
        c == r.channelId
    IN  /\ r.pc = "returned"
        /\ ~r.deferred
        /\ MapHas(channelNames, c)
        /\ MapHas(conversationHistory, c)
        /\ arrays[conversationHistory[c]] = ToolThenText(m)

C22_DeliveryFailureContained ==
    [][\A m \in Msgs :
          (calls[m].pc = "deliver" /\ calls'[m] # calls[m]) =>
              /\ Becomes(ScanBlocks(World, activeBots, m, calls[m].blockIdx + 1))
              /\ calls'[m].pc \in {"deliver", "tool", "returned"}
              /\ calls'[m].pc = "returned" =>
                     calls'[m].outcome =
                         [state |-> "fulfilled", value |-> calls'[m].assistantText]]_vars

\* C22 witness: a run with a tool round has returned its text after a
\* delivery was awaited in its first response.
C22_Witness ==
    \E m \in Msgs :
        /\ calls[m].pc = "returned"
        /\ calls[m].apiCalls = 2
        /\ DeliveriesIn(webhook, m, 0, 1) # {}
        /\ calls[m].outcome.value = calls[m].assistantText
        /\ Len(calls[m].assistantText) > 0
        /\ MapHas(sessionStats, calls[m].channelId)

C24_CloseSessionClearsAll ==
    \A c \in Channels :
        LET S2 == closeSession(Store, c)
        IN  /\ ~MapHas(S2.conversationHistory, c)
            /\ ~MapHas(S2.sessionStats, c)
            /\ getSessionStats(S2.sessionStats, c) = [totalCost |-> 0, messageCount |-> 0]
            /\ ~MapHas(S2.inactivityTimers, c)
            /\ S2.timeouts[c] = 0

\* some create_jira_ticket call of the run returned success: toolsUsed holds
\* success = !result.error for each call (239-243), and a ticket result has
\* no error exactly when it has success
TicketCreated ==
    \E i \in DOMAIN agent.toolsUsed :
        agent.toolsUsed[i].tool = "create_jira_ticket" /\ agent.toolsUsed[i].success

\* C25: in ClaudeAgent.claudeReasoningLoop the returned jiraTicket is non-null
\* exactly when some create_jira_ticket call of the run returned success, and
\* it is then the result of the last such call (the issue Jira created last),
\* on every path by which the loop returns.
C25_TicketReturnedOnEveryPath ==
    agent.pc = "returned" =>
        /\ (agent.returned.jiraTicket # NoTicket) <=> TicketCreated
        /\ TicketCreated => agent.returned.jiraTicket = Ticket(agent.issues - 1)

\* the same on the paths other than the ignore_message return
C25_HoldsUnlessIgnored ==
    (agent.pc = "returned" /\ ~agent.returned.ignored) =>
        /\ (agent.returned.jiraTicket # NoTicket) <=> TicketCreated
        /\ TicketCreated => agent.returned.jiraTicket = Ticket(agent.issues - 1)

\* channel c has an entry that was dequeued at the end of a run and waits, as a
\* setImmediate callback, for its re-submission
Dequeued(c) == \E i \in DOMAIN immediates : calls[immediates[i]].channelId = c

\* C26 (as claimed): the entry dequeued when a run completes is the next run
\* to hold the channel's lock: between the release of the lock and the
\* re-submission of the dequeued entry no message arriving for the channel
\* acquires the lock, and the re-submitted entry starts its run instead of
\* going back into the pending list.
C26_DequeuedRunsNext ==
    [][/\ \A c \in Channels :
            (Arrives(c) /\ Dequeued(c)) => calls'[nextMsg].pc = "waiting"
       /\ ImmediateFires => calls'[Head(immediates)].pc = "create0"]_vars

\* C27 (as claimed): no text that contains the sentinel [SILENT], in any
\* letter case, alone or inside other text, is ever sent to the Google Meet
\* chat: a run's returned text in which a suppressed sentinel chunk was
\* accumulated is not posted to the meeting.
C27_NoSentinelInMeetChat ==
    \A k \in DOMAIN meetChat : ~ClaimedSentinel(meetChat[k].text)

\* C28: the deferred result of a queued message never rejects and carries the
\* outcome of its own run: it is pending until that run ends, resolves with
\* the run's accumulated text when the run returns and with 'Error: <message>'
\* when the run throws, and once settled it never changes.
C28_DeferredNeverRejects ==
    /\ [](\A m \in Msgs :
            LET r == calls[m]
            IN  r.deferred =>
                  /\ r.outcome.state # "rejected"
                  /\ r.pc \in Running \cup {"waiting"} => r.outcome = Pending
                  /\ r.pc = "returned" =>
                         r.outcome = [state |-> "fulfilled", value |-> r.assistantText]
                  /\ r.pc = "threw" =>
                         r.outcome = [state |-> "fulfilled",
                                      value |-> <<"Error: ", "API error">>])
    /\ [][\A m \in Msgs :
            calls[m].outcome.state # "pending" => calls'[m].outcome = calls[m].outcome]_vars

\* C28 witness: the run of a queued message threw and its deferred result is
\* resolved with 'Error: API error', and the run of another queued message
\* returned and its deferred result is resolved with its text.
C28_Witness ==
    \E m \in Msgs, k \in Msgs :
        /\ calls[m].deferred /\ calls[m].pc = "threw"
        /\ calls[m].outcome = [state |-> "fulfilled", value |-> <<"Error: ", "API error">>]
        /\ calls[k].deferred /\ calls[k].pc = "returned"
        /\ calls[k].outcome = [state |-> "fulfilled", value |-> <<"h", "i">>]

\* the user turn answers the tool calls of the assistant turn before it: one
\* tool_result for each tool_use id and nothing else
AnswersToolCalls(assistant, user) ==
    LET toolCalls == ToolCalls(assistant.content)
    IN  /\ user.role = "user"
        /\ Len(user.content) = Len(toolCalls)
        /\ \A i \in DOMAIN toolCalls :
               Cardinality({k \in DOMAIN user.content :
                               /\ user.content[k].type = "tool_result"
                               /\ user.content[k].id = toolCalls[i].id}) = 1

\* C29 (as claimed, for the states in which no run of the channel is in
\* flight): each assistant turn of a channel's stored history that contains
\* tool_use blocks is immediately followed by a user turn holding exactly one
\* tool_result per tool_use id, also when the run reached the tool-round limit.
C29_ToolUseAnswered ==
    \A c \in Channels :
        (MapHas(conversationHistory, c) /\ RunningOn(c) = {}) =>
            LET h == arrays[conversationHistory[c]]
            IN  \A i \in DOMAIN h :
                    (h[i].role = "assistant" /\ Len(ToolCalls(h[i].content)) > 0) =>
                        /\ i < Len(h)
                        /\ AnswersToolCalls(h[i], h[i + 1])

\* C30 (as claimed): every model response received during a run has its
\* non-empty text blocks appended to the run's returned text and, unless
\* suppressed, delivered, the response received after the last allowed tool
\* round included: the text a returned run resolved with is the text of all
\* the assistant turns it pushed to the history, and a run that returns
\* straight from a model call pushes no block the loop would have sent.
C30_EveryResponseStreamed ==
    /\ [](\A m \in Msgs :
            LET r == calls[m]
            IN  (/\ r.pc = "returned"
                 /\ MapHas(conversationHistory, r.channelId)
                 /\ conversationHistory[r.channelId] = r.history)
                => r.outcome.value = SaidSoFar(m))
    /\ [][\A m \in Msgs :
            LET c == calls[m].channelId
            IN  (calls[m].pc \in {"create0", "create"} /\ calls'[m].pc = "returned") =>
                    \A i \in DOMAIN calls'[m].response :
                        ~(/\ ClaimedDeliverable(calls'[m].response[i])
                          /\ MapHas(channelNames, c)
                          /\ ~isChannelInMeeting(activeBots, c))]_vars

\* C31 (as claimed): in every reachable state the session-stats map and the
\* history map have the same keys: a channel has stats exactly when it has a
\* history, also after a reset or an idle eviction that happened while a run
\* of the channel was in flight.
C31_StatsKeysAreHistoryKeys ==
    \A c \in Channels : MapHas(sessionStats, c) <=> MapHas(conversationHistory, c)

\* C32: in every reachable state a channel has an armed idle timer exactly
\* when it has a stored history, and never more than one: a run that starts on
\* a channel whose timer is armed cancels it before it schedules the new one.
C32_OneTimerPerSession ==
    /\ [](\A c \in Channels :
            /\ timeouts[c] <= 1
            /\ timeouts[c] = 1 <=> MapHas(conversationHistory, c))
    /\ [][\A c \in Channels, m \in Msgs :
            (Starts(m) /\ calls'[m].channelId = c /\ timeouts[c] = 1) =>
                timeouts'[c] = 1 /\ TimerArmed(inactivityTimers', c)]_vars

\* C32 witness: a second run is in flight on the session in which a first run
\* has returned, so the timer armed by the first run was rearmed, and one timer
\* is armed.
C32_Witness ==
    \E m \in Msgs, k \in Msgs :
        /\ m # k
        /\ calls[m].pc = "returned"
        /\ calls[k].pc \in Running
        /\ calls[k].channelId = calls[m].channelId
        /\ calls[k].history = calls[m].history
        /\ MapHas(conversationHistory, calls[k].channelId)
        /\ timeouts[calls[k].channelId] = 1

\* C33 (as claimed): whenever no run of a channel is in flight, the history
\* stored for the channel is empty or ends with an assistant turn, so that the
\* user turn of the next run never follows another user turn; also after a
\* run that failed on an error of the model call.
C33_HistoryEndsWithAssistant ==
    \A c \in Channels :
        (MapHas(conversationHistory, c) /\ RunningOn(c) = {}) =>
            LET h == arrays[conversationHistory[c]]
            IN  h = <<>> \/ h[Len(h)].role = "assistant"

\* C34 (as claimed): all the model calls of a run use the same system prompt:
\* when the Google Meet rules were added to the prompt of the first model call
\* of a run, the prompt of every follow-up call made after tool results in that
\* run contains them too.
C34_SamePromptInRun ==
    \A m \in Msgs :
        (calls[m].pc \in {"create0", "create"} /\ calls[m].isGoogleMeet) =>
            calls[m].system = systemPrompt \o GoogleMeetRules

\* the submissions of bot b whose sendMessage call has not been finished with
InFlight(b) ==
    {i \in DOMAIN submissions : submissions[i].botId = b /\ submissions[i].pc # "done"}

\* C35: for each Meet bot at most one buffered-transcript submission to the
\* agent is in flight at a time: a submission is in flight exactly while
\* isProcessing is true, processBufferedTranscripts starts one only while
\* isProcessing is false, and a transcript that arrives during a submission
\* goes to the pending buffer and arms no timer.
C35_OneSubmissionPerBot ==
    /\ [](\A b \in BotIds :
            /\ Cardinality(InFlight(b)) <= 1
            /\ MapHas(transcriptBuffers, b) =>
                   (transcriptBuffers[b].isProcessing <=> InFlight(b) # {})
            /\ ~MapHas(transcriptBuffers, b) => InFlight(b) = {})
    /\ [][\A b \in BotIds :
            /\ (Len(submissions') > Len(submissions) /\ submissions'[Len(submissions')].botId = b)
                   => ~transcriptBuffers[b].isProcessing
            /\ (now' # now /\ MapHas(transcriptBuffers, b) /\ transcriptBuffers[b].isProcessing
                /\ transcriptBuffers'[b] # transcriptBuffers[b])
                   => /\ Len(transcriptBuffers'[b].pendingBuffer)
                             = Len(transcriptBuffers[b].pendingBuffer) + 1
                      /\ transcriptBuffers'[b].pendingBuffer[Len(transcriptBuffers'[b].pendingBuffer)].timestamp = now'
                      /\ transcriptBuffers'[b].currentBuffer = transcriptBuffers[b].currentBuffer
                      /\ transcriptBuffers'[b].timer = transcriptBuffers[b].timer
                      /\ bufferTimeouts'[b] = bufferTimeouts[b]]_vars

\* C35 witness: while a submission of a bot is in flight two transcripts have
\* arrived: they wait in the pending buffer and no timer is armed.
C35_Witness ==
    \E b \in BotIds :
        /\ MapHas(transcriptBuffers, b)
        /\ transcriptBuffers[b].isProcessing
        /\ Cardinality(InFlight(b)) = 1
        /\ Len(transcriptBuffers[b].pendingBuffer) = 2
        /\ bufferTimeouts[b] = 0

\* the transcripts of the messages submitted for bot b, in submission order
RECURSIVE SubmittedFrom(_, _)
SubmittedFrom(b, i) ==
    IF i > Len(submissions) THEN <<>>
    ELSE (IF submissions[i].botId = b
          THEN [k \in DOMAIN submissions[i].formattedTranscript |->
                   submissions[i].formattedTranscript[k].transcript]
          ELSE <<>>) \o SubmittedFrom(b, i + 1)

\* the transcripts of bot b still buffered, in the order they will be submitted
Unsubmitted(b) ==
    IF MapHas(transcriptBuffers, b)
    THEN [k \in DOMAIN transcriptBuffers[b].currentBuffer |->
             transcriptBuffers[b].currentBuffer[k].transcript]
         \o [k \in DOMAIN transcriptBuffers[b].pendingBuffer |->
                transcriptBuffers[b].pendingBuffer[k].transcript]
    ELSE <<>>

\* the accepted transcripts of bot b: submitted, then buffered
TranscriptsOf(b) == SubmittedFrom(b, 1) \o Unsubmitted(b)

\* every accepted transcript is in exactly one place, a submitted message or a
\* buffer, and those of a bot are there in arrival order
InOneMessageInOrder ==
    /\ \A t \in 1..now :
           Cardinality({<<b, k>> \in BotIds \X (1..MaxTranscripts) :
                           k <= Len(TranscriptsOf(b)) /\ TranscriptsOf(b)[k] = t}) = 1
    /\ \A b \in BotIds : \A k \in 1..Len(TranscriptsOf(b)) :
           /\ TranscriptsOf(b)[k] \in 1..now
           /\ k > 1 => TranscriptsOf(b)[k - 1] < TranscriptsOf(b)[k]

\* a step of the program, as opposed to an arrival: a timeout, a setImmediate
\* callback, a response or failure of the model, a settled call
ProgramStep ==
    \/ \E b \in BotIds : BufferTimerFires(b)
    \/ \E i \in 1..MaxMsgs : SubmissionSettles(i)
    \/ ImmediateFires
    \/ \E m \in Msgs : ModelReturns(m, PlainFinal, 0, 0)
    \/ \E m \in Msgs : ModelFails(m)

\* C36 (as claimed): every complete transcript accepted by bufferTranscript is
\* included in exactly one message submitted to the agent, in arrival order
\* within a bot, and it is eventually submitted: while a transcript is still
\* buffered the program has a step left to take (a timeout to fire, a
\* submission or a run to finish), so it never comes to rest with a transcript
\* that was not submitted.
C36_EveryTranscriptSubmitted ==
    /\ InOneMessageInOrder
    /\ (\E b \in BotIds : Unsubmitted(b) # <<>>) => ENABLED ProgramStep

\* the bots registered for channel c
BotsOf(c) == {b \in DOMAIN activeBots : activeBots[b] = c}

\* a join tool call of run m settles in this step
JoinSettles(m) ==
    /\ calls[m].pc = "tool"
    /\ CurrentTool(calls[m]).name = JoinTool
    /\ calls'[m] # calls[m]

\* the tool result the step has added for run m
LastResult(m) == calls'[m].toolResults[Len(calls'[m].toolResults)].text

C38_AtMostTwoAttempts ==
    /\ [](\A k \in SendIds : cliqCalls[k].attempts <= 2)
    /\ [][\A k \in SendIds :
            (cliqCalls[k].pc = "fetch" /\ cliqCalls[k].depth > 0
             /\ cliqCalls'[k].pc # "fetch")
                => cliqCalls'[k].pc \in {"resolved", "rejected"}]_vars

====
